---------------------------- MODULE Spec2Model ----------------------------
(***************************************************************************)
(* A model of rutie-serde: the serde Serializer / Deserializer pair that   *)
(* converts between typed Rust values and Ruby (host) objects, its access  *)
(* cursors, its compound builders, its error value and the method harness. *)
(*                                                                         *)
(* Host objects, typed values and serde types are uniform records, so that *)
(* any two of a family can be compared.  The Ruby runtime and the serde    *)
(* visitors of the target types are the environment of the code: they are  *)
(* modelled by what the code asks of them.                                 *)
(***************************************************************************)
EXTENDS Integers, Sequences, FiniteSets, TLC

(***************************************************************************)
(* Bounds.  TLC's integers are 32 bits wide, so the four integer widths of *)
(* the data model are scaled down; their order and the signed / unsigned   *)
(* split are kept, and every cast is computed modulo the scaled width.     *)
(***************************************************************************)
Bits8 == 2
Bits16 == 3
Bits32 == 4
Bits64 == 5
MaxElems == 2

RECURSIVE Pow2(_)
Pow2(n) == IF n = 0 THEN 1 ELSE 2 * Pow2(n - 1)

IntKinds == {"i8", "i16", "i32", "i64", "u8", "u16", "u32", "u64"}
Signed(k) == k \in {"i8", "i16", "i32", "i64"}
BitsOf(k) ==
    CASE k \in {"i8", "u8"} -> Bits8
      [] k \in {"i16", "u16"} -> Bits16
      [] k \in {"i32", "u32"} -> Bits32
      [] OTHER -> Bits64
MinOf(k) == IF Signed(k) THEN 0 - Pow2(BitsOf(k) - 1) ELSE 0
MaxOf(k) == IF Signed(k) THEN Pow2(BitsOf(k) - 1) - 1 ELSE Pow2(BitsOf(k)) - 1

\* Rust's 'as' casts between integer types: reduction modulo the width.
AsU32(n) == n % Pow2(Bits32)
AsU64(n) == n % Pow2(Bits64)
AsI64(n) ==
    LET m == n % Pow2(Bits64)
    IN IF m >= Pow2(Bits64 - 1) THEN m - Pow2(Bits64) ELSE m

(***************************************************************************)
(* Results.  A call returns Ok(v) or Err(e), or it unwinds with a panic.   *)
(***************************************************************************)
Ok(v) == [st |-> "ok", v |-> v]
Err(e) == [st |-> "err", err |-> e]
Panic(m) == [st |-> "panic", msg |-> m]
IsOk(r) == r.st = "ok"
IsErr(r) == r.st = "err"
IsPanic(r) == r.st = "panic"

\* Let(v, LAMBDA x : e) is e with v for x.  Try is Rust's ? operator: the
\* rest of the function runs on the value of an Ok, anything else returns.
Let(v, K(_)) == K(v)
Try(r, K(_)) == IF IsOk(r) THEN K(r.v) ELSE r

\* error.rs: Error { kind, context }.  cls and msg hold the kind's payload:
\* the message, the description, or the class and message of the exception.
Error(kind, cls, msg) == [kind |-> kind, cls |-> cls, msg |-> msg, context |-> <<>>]
ErrorFromStr(msg) == Error("Message", "", msg)
ErrorFromException(exc) == Error("RutieException", exc.cls, exc.msg)
NotImplemented(description) == Error("NotImplemented", "", description)

\* Error::chain_context pushes one string at the end of the context list.
Error_chain_context(err, str) == [err EXCEPT !.context = Append(@, str)]

\* chain_context that keeps the newest context string only.
chain_context_replacing(r, str) ==
    IF IsErr(r) THEN Err([r.err EXCEPT !.context = <<str>>]) ELSE r

\* ResultExt::chain_context: Ok passes through, Err gets the context.
chain_context(r, str) ==
    IF IsErr(r) THEN Err(Error_chain_context(r.err, str)) ELSE r

\* serde's ser::Error::custom and de::Error::custom: a Message error.
Error_custom(msg) == ErrorFromStr(msg)

\* context.join(sep).
RECURSIVE Join(_, _)
Join(strs, sep) ==
    IF strs = <<>> THEN ""
    ELSE IF Len(strs) = 1 THEN strs[1]
    ELSE strs[1] \o sep \o Join(Tail(strs), sep)

\* describe_context that shows the last context string only.
describe_context_last(err) ==
    IF err.context = <<>> THEN ""
    ELSE "\nContext from Rust:\n - " \o err.context[Len(err.context)]

describe_context(err) ==
    IF err.context = <<>> THEN ""
    ELSE "\nContext from Rust:\n - " \o Join(err.context, "\n - ")

\* Display of ErrorKind: the message, the description, or the exception's
\* answer to inspect.
ErrorKind_fmt(err) ==
    IF err.kind = "RutieException" THEN "#<" \o err.cls \o ": " \o err.msg \o ">"
    ELSE err.msg

\* Display of Error.
Error_fmt(err) == ErrorKind_fmt(err) \o "\n" \o describe_context(err)

\* IntoException for Error: the wrapped exception with the context added to
\* its message, or a new exception of the default class.
into_exception(err, default_class) ==
    IF err.kind = "RutieException"
    THEN [cls |-> err.cls, msg |-> err.msg \o describe_context(err)]
    ELSE [cls |-> default_class, msg |-> Error_fmt(err)]

(***************************************************************************)
(* Host (Ruby) objects: [cls, n, s, items, keys].                          *)
(*   Integer: n.  String, Symbol: s.  Array: items.                        *)
(*   Hash: keys as 'keys' enumerates them, items the values stored under   *)
(*   them (HAbsent where 'fetch' finds no entry for an enumerated key).    *)
(*   Any other class: an object answering the methods named by keys with   *)
(*   the values in items.                                                  *)
(***************************************************************************)
Host(cls, n, s, items, keys) ==
    [cls |-> cls, n |-> n, s |-> s, items |-> items, keys |-> keys]
HNil == Host("NilClass", 0, "", <<>>, <<>>)
HBool(b) == Host(IF b THEN "TrueClass" ELSE "FalseClass", 0, "", <<>>, <<>>)
HInt(n) == Host("Integer", n, "", <<>>, <<>>)
\* A Float of integral value n.
HFloat(n) == Host("Float", n, "", <<>>, <<>>)
HStr(s) == Host("String", 0, s, <<>>, <<>>)
HSym(s) == Host("Symbol", 0, s, <<>>, <<>>)
HArr(items) == Host("Array", 0, "", items, <<>>)
HHash(keys, items) == Host("Hash", 0, "", items, keys)
HObj(cls, names, items) == Host(cls, 0, "", items, [i \in DOMAIN names |-> HStr(names[i])])
HAbsent == Host("<absent>", 0, "", <<>>, <<>>)

\* Params stands for a subclass of Hash: is_a?(Hash) holds of its instances
\* and their class has another name.
HashClasses == {"Hash", "Params"}
IsHash(o) == o.cls \in HashClasses
BuiltinClasses ==
    {"NilClass", "TrueClass", "FalseClass", "Integer", "Float", "String", "Symbol",
     "Array"}
        \cup HashClasses
IsPlainObject(o) == o.cls \notin BuiltinClasses

\* Ruby exceptions raised by a dispatch.
Exception(cls, msg) == [cls |-> cls, msg |-> msg]

\* Object#inspect, as far as the code formats objects with {:?}.
Inspect(o) ==
    CASE o.cls = "NilClass" -> "nil"
      [] o.cls = "TrueClass" -> "true"
      [] o.cls = "FalseClass" -> "false"
      [] o.cls = "Integer" -> ToString(o.n)
      [] o.cls = "Float" -> ToString(o.n) \o ".0"
      [] o.cls = "String" -> "\"" \o o.s \o "\""
      [] o.cls = "Symbol" -> ":" \o o.s
      [] o.cls = "Array" -> "[..]"
      [] IsHash(o) -> "{..}"
      [] OTHER -> "#<" \o o.cls \o ">"

\* Object#to_s.
ToS(o) ==
    CASE o.cls = "NilClass" -> ""
      [] o.cls = "String" -> o.s
      [] o.cls = "Symbol" -> o.s
      [] OTHER -> Inspect(o)

\* The index of the first entry of hash h enumerated under key k, 0 if none.
KeyIndex(h, k) ==
    LET hits == {i \in DOMAIN h.keys : h.keys[i] = k /\ h.items[i] # HAbsent}
    IN IF hits = {} THEN 0 ELSE CHOOSE i \in hits : \A j \in hits : i <= j

\* The values 'values' lists: those of the entries the hash holds.
RECURSIVE Present(_)
Present(items) ==
    IF items = <<>> THEN <<>>
    ELSE IF Head(items) = HAbsent THEN Present(Tail(items))
    ELSE <<Head(items)>> \o Present(Tail(items))

NoMethod(o, m) ==
    Err(Exception("NoMethodError", "undefined method '" \o m \o "' for " \o Inspect(o)))

\* Object#protect_send / protect_public_send: the dispatch of method m with
\* arguments args on host object o, as the Ruby runtime answers it.
ProtectSend(o, m, args) ==
    CASE m = "to_s" -> Ok(HStr(ToS(o)))
      [] m = "is_a?" -> Ok(HBool(o.cls = args[1].s \/ (args[1].s = "Hash" /\ IsHash(o))))
      [] m = "length" /\ (o.cls = "Array" \/ IsHash(o)) ->
            Ok(HInt(Len(Present(o.items))))
      [] m = "[]" /\ o.cls = "Array" ->
            Ok(IF args[1].n + 1 \in DOMAIN o.items THEN o.items[args[1].n + 1] ELSE HNil)
      [] m = "[]" /\ IsHash(o) ->
            Ok(IF KeyIndex(o, args[1]) = 0 THEN HNil ELSE o.items[KeyIndex(o, args[1])])
      [] m = "first" /\ o.cls = "Array" ->
            Ok(IF o.items = <<>> THEN HNil ELSE Head(o.items))
      [] m = "keys" /\ IsHash(o) -> Ok(HArr(o.keys))
      [] m = "values" /\ IsHash(o) -> Ok(HArr(Present(o.items)))
      [] m = "fetch" /\ IsHash(o) ->
            IF KeyIndex(o, args[1]) = 0
            THEN Err(Exception("KeyError", "key not found: " \o Inspect(args[1])))
            ELSE Ok(o.items[KeyIndex(o, args[1])])
      [] IsPlainObject(o) /\ \E i \in DOMAIN o.keys : o.keys[i].s = m ->
            Ok(o.items[CHOOSE i \in DOMAIN o.keys : o.keys[i].s = m])
      [] OTHER -> NoMethod(o, m)

\* A failed dispatch becomes an Error of the RutieException kind (error.rs,
\* From<AnyException>); protect_send of de.rs is that conversion.
FromException(r) == IF IsErr(r) THEN Err(ErrorFromException(r.err)) ELSE r
Deserializer_protect_send(o, m, args) == FromException(ProtectSend(o, m, args))

\* de.rs object_class_name: the name of the object's class.
object_class_name(o) == Ok(o.cls)

(***************************************************************************)
(* Typed values, by their shape in the serde data model:                   *)
(* [t, b, n, s, items, names].                                             *)
(*   bool: b.  i8 .. u64: n.  string: s.  unit, none.  some: items[1].     *)
(*   seq: items.  map: names the (text) keys, items the values.            *)
(*   struct: s the name, names the fields, items their values.             *)
(*   unit_variant, newtype_variant, tuple_variant, struct_variant: s the   *)
(*   variant, items the payload, names the fields of a struct variant.     *)
(***************************************************************************)
Typed(t, b, n, s, items, names) ==
    [t |-> t, b |-> b, n |-> n, s |-> s, items |-> items, names |-> names]
TBool(b) == Typed("bool", b, 0, "", <<>>, <<>>)
TInt(k, n) == Typed(k, FALSE, n, "", <<>>, <<>>)
\* An f64 of integral value n.
TFloat(n) == Typed("f64", FALSE, n, "", <<>>, <<>>)
TStr(s) == Typed("string", FALSE, 0, s, <<>>, <<>>)
TUnit == Typed("unit", FALSE, 0, "", <<>>, <<>>)
TNone == Typed("none", FALSE, 0, "", <<>>, <<>>)
TSome(x) == Typed("some", FALSE, 0, "", <<x>>, <<>>)
TSeq(items) == Typed("seq", FALSE, 0, "", items, <<>>)
TTuple(items) == Typed("tuple", FALSE, 0, "", items, <<>>)
TMap(names, items) == Typed("map", FALSE, 0, "", items, names)
TStruct(name, names, items) == Typed("struct", FALSE, 0, name, items, names)
TUnitVariant(variant) == Typed("unit_variant", FALSE, 0, variant, <<>>, <<>>)
TNewtypeVariant(variant, x) == Typed("newtype_variant", FALSE, 0, variant, <<x>>, <<>>)
TTupleVariant(variant, items) == Typed("tuple_variant", FALSE, 0, variant, items, <<>>)
TStructVariant(variant, names, items) ==
    Typed("struct_variant", FALSE, 0, variant, items, names)
\* A value of a type whose own Serialize impl reports a custom error.
TFailing(msg) == Typed("failing", FALSE, 0, msg, <<>>, <<>>)

\* The value of a call that returns ().
Unit == <<>>

(***************************************************************************)
(* ser.rs: the Serializer.                                                 *)
(***************************************************************************)
serialize_bool(v) == Ok(HBool(v))
serialize_i64(v) == Ok(HInt(v))
serialize_i8(v) == serialize_i64(v)
serialize_i16(v) == serialize_i64(v)
serialize_i32(v) == serialize_i64(v)
serialize_u8(v) == serialize_i64(v)
serialize_u16(v) == serialize_i64(v)
serialize_u32(v) == serialize_i64(v)
\* serialize_u64 with the value handed on as it is.
serialize_u64_unchanged(v) == serialize_i64(v)
serialize_u64(v) == serialize_i64(AsI64(v))
serialize_str(v) == Ok(HStr(v))
serialize_none == Ok(HNil)
serialize_unit == serialize_none
serialize_unit_variant(variant) == serialize_str(variant)

\* Hash#store: the value replaces that of an equal key, else a new entry.
HashStore(h, k, v) ==
    IF KeyIndex(h, k) # 0
    THEN [h EXCEPT !.items[KeyIndex(h, k)] = v]
    ELSE [h EXCEPT !.keys = Append(@, k), !.items = Append(@, v)]

\* SeqSerializer { array }.
SeqSerializer_new == [array |-> HArr(<<>>)]
serialize_seq == Ok(SeqSerializer_new)
SeqSerializer_end(self) == Ok(self.array)

\* MapSerializer { hash, current_key }; current_key is <<>> or <<key>>.
MapSerializer_new == [hash |-> HHash(<<>>, <<>>), current_key |-> <<>>]
serialize_map == Ok(MapSerializer_new)
serialize_struct == serialize_map
MapSerializer_end(self) == Ok(self.hash)
\* SerializeStruct::end, implemented for MapSerializer.
SerializeStruct_end(self) == Ok(self.hash)

\* TupleVariantSerializer::new and TupleStructSerializer::new are
\* unimplemented!(): the call unwinds before any Result exists.
TupleVariantSerializer_new == Panic("not implemented: TupleVariantSerializer::new")
TupleStructSerializer_new == Panic("not implemented: TupleStructSerializer::new")
serialize_tuple_variant == TupleVariantSerializer_new
serialize_struct_variant == TupleStructSerializer_new

RECURSIVE Serialize(_)

\* new_ruby_object: value.serialize(&mut Serializer).
new_ruby_object(value) == Serialize(value)

\* serialize_newtype_variant with the variant stored as a string key.
serialize_newtype_variant_string_key(variant, value) ==
    Try(Serialize(value),
        LAMBDA v : Ok(HashStore(HHash(<<>>, <<>>), HStr(variant), v)))

serialize_newtype_variant(variant, value) ==
    Try(Serialize(value),
        LAMBDA v : Ok(HashStore(HHash(<<>>, <<>>), HSym(variant), v)))

\* A builder step returns the builder as the call leaves it and the result.
Step(self, res) == [self |-> self, res |-> res]
\* The rest of a sequence of steps runs on the builder of a successful step.
TryStep(step, K(_)) == IF IsOk(step.res) THEN K(step) ELSE step
\* A step that serializes an argument first: it changes the builder only if
\* that succeeds.
WithObject(self, r, K(_)) == IF IsOk(r) THEN Step(K(r.v), Ok(Unit)) ELSE Step(self, r)

\* serialize_element with the element pushed at the front of the array.
SeqSerializer_serialize_element_front(self, value) ==
    WithObject(self, new_ruby_object(value),
               LAMBDA v : [self EXCEPT !.array.items = <<v>> \o @])

SeqSerializer_serialize_element(self, value) ==
    WithObject(self, new_ruby_object(value),
               LAMBDA v : [self EXCEPT !.array.items = Append(@, v)])

\* serialize_tuple and serialize_tuple_struct return what serialize_seq
\* returns; SerializeTuple and SerializeTupleStruct are implemented for
\* SeqSerializer with the same bodies as SerializeSeq.
serialize_tuple == serialize_seq
serialize_tuple_struct == serialize_seq

SerializeTuple_serialize_element(self, value) ==
    WithObject(self, new_ruby_object(value),
               LAMBDA v : [self EXCEPT !.array.items = Append(@, v)])
SerializeTuple_end(self) == Ok(self.array)

SerializeTupleStruct_serialize_field(self, value) ==
    WithObject(self, new_ruby_object(value),
               LAMBDA v : [self EXCEPT !.array.items = Append(@, v)])
SerializeTupleStruct_end(self) == Ok(self.array)

\* serialize_key with the cached key dropped when the key fails to
\* serialize.
MapSerializer_serialize_key_clearing(self, key) ==
    IF IsOk(new_ruby_object(key))
    THEN Step([self EXCEPT !.current_key = <<new_ruby_object(key).v>>], Ok(Unit))
    ELSE Step([self EXCEPT !.current_key = <<>>], new_ruby_object(key))

MapSerializer_serialize_key(self, key) ==
    WithObject(self, new_ruby_object(key),
               LAMBDA k : [self EXCEPT !.current_key = <<k>>])

MapSerializer_serialize_value(self, value) ==
    IF self.current_key = <<>>
    THEN Step(self, Err(ErrorFromStr("no key given")))
    ELSE WithObject(self, new_ruby_object(value),
                    LAMBDA v : [self EXCEPT
                                   !.hash = HashStore(@, self.current_key[1], v)])

\* serialize_field with the field's name stored as a string key.
MapSerializer_serialize_field_string_key(self, key, value) ==
    WithObject(self, new_ruby_object(value),
               LAMBDA v : [self EXCEPT !.hash = HashStore(@, HStr(key), v)])

MapSerializer_serialize_field(self, key, value) ==
    WithObject(self, new_ruby_object(value),
               LAMBDA v : [self EXCEPT !.hash = HashStore(@, HSym(key), v)])

\* serde's SerializeMap::serialize_entry: the key, then the value.
MapSerializer_serialize_entry(self, key, value) ==
    TryStep(MapSerializer_serialize_key(self, key),
            LAMBDA k : MapSerializer_serialize_value(k.self, value))

\* The Serialize impls of the typed values drive the builders: every
\* element, entry or field in order, stopping at the first failure.
RECURSIVE SerializeElements(_, _)
SerializeElements(self, items) ==
    IF items = <<>> THEN SeqSerializer_end(self)
    ELSE Let(SeqSerializer_serialize_element(self, Head(items)),
             LAMBDA e : IF IsOk(e.res) THEN SerializeElements(e.self, Tail(items))
                        ELSE e.res)

RECURSIVE SerializeEntries(_, _, _)
SerializeEntries(self, names, items) ==
    IF items = <<>> THEN MapSerializer_end(self)
    ELSE Let(MapSerializer_serialize_entry(self, TStr(Head(names)), Head(items)),
             LAMBDA e : IF IsOk(e.res)
                        THEN SerializeEntries(e.self, Tail(names), Tail(items))
                        ELSE e.res)

RECURSIVE SerializeFields(_, _, _)
SerializeFields(self, names, items) ==
    IF items = <<>> THEN MapSerializer_end(self)
    ELSE Let(MapSerializer_serialize_field(self, Head(names), Head(items)),
             LAMBDA e : IF IsOk(e.res)
                        THEN SerializeFields(e.self, Tail(names), Tail(items))
                        ELSE e.res)

Serialize(value) ==
    CASE value.t = "bool" -> serialize_bool(value.b)
      [] value.t = "i8" -> serialize_i8(value.n)
      [] value.t = "i16" -> serialize_i16(value.n)
      [] value.t = "i32" -> serialize_i32(value.n)
      [] value.t = "i64" -> serialize_i64(value.n)
      [] value.t = "u8" -> serialize_u8(value.n)
      [] value.t = "u16" -> serialize_u16(value.n)
      [] value.t = "u32" -> serialize_u32(value.n)
      [] value.t = "u64" -> serialize_u64(value.n)
      [] value.t = "string" -> serialize_str(value.s)
      [] value.t = "unit" -> serialize_unit
      [] value.t = "none" -> serialize_none
      [] value.t = "some" -> Serialize(value.items[1])
      [] value.t = "seq" -> SerializeElements(serialize_seq.v, value.items)
      [] value.t = "map" -> SerializeEntries(serialize_map.v, value.names, value.items)
      [] value.t = "struct" ->
            SerializeFields(serialize_struct.v, value.names, value.items)
      [] value.t = "unit_variant" -> serialize_unit_variant(value.s)
      [] value.t = "newtype_variant" ->
            serialize_newtype_variant(value.s, value.items[1])
      [] value.t = "tuple_variant" -> serialize_tuple_variant
      [] value.t = "struct_variant" -> serialize_struct_variant
      [] value.t = "failing" -> Err(Error_custom(value.s))

(***************************************************************************)
(* serde types, the targets of a decode: [k, name, names, shapes, tys].    *)
(*   bool, i8 .. u64, string, unit: k alone.  option, seq: tys[1].         *)
(*   struct: name, names the declared fields, tys their types.             *)
(*   enum: name, names the variants, shapes[i] one of unit, newtype,       *)
(*   tuple, struct, tys[i] the payload type of a newtype variant.          *)
(*   identifier: the field (variant) identifier of a struct (enum) whose   *)
(*   fields (variants) are names.  ignored_any: serde's IgnoredAny.        *)
(***************************************************************************)
Ty(k, name, names, shapes, tys) ==
    [k |-> k, name |-> name, names |-> names, shapes |-> shapes, tys |-> tys]
Prim(k) == Ty(k, "", <<>>, <<>>, <<>>)
OptionTy(ty) == Ty("option", "", <<>>, <<>>, <<ty>>)
SeqTy(ty) == Ty("seq", "", <<>>, <<>>, <<ty>>)
StructTy(name, names, tys) == Ty("struct", name, names, <<>>, tys)
EnumTy(name, names, shapes, tys) == Ty("enum", name, names, shapes, tys)
TupleTy(tys) == Ty("tuple", "", <<>>, <<>>, tys)
\* A map with text keys and values of type ty.
MapTy(ty) == Ty("map", "", <<>>, <<>>, <<ty>>)
\* A self-describing value, decoded through deserialize_any.
AnyTy == Prim("any")
TupleStructTy(name, tys) == Ty("tuple_struct", name, <<>>, <<>>, tys)
FieldIdentifier(names) == Ty("identifier", "field", names, <<>>, <<>>)
VariantIdentifier(names) == Ty("identifier", "variant", names, <<>>, <<>>)
IgnoredAny == Prim("ignored_any")
I64 == Prim("i64")

\* What the identifier visitors yield: the index of the field or variant,
\* 0 for a field to ignore.
TIdent(i) == Typed("identifier", FALSE, i, "", <<>>, <<>>)
TIgnored == Typed("ignored_any", FALSE, 0, "", <<>>, <<>>)

\* The first index of name s in names, 0 when it is not among them.
IndexOf(names, s) ==
    LET hits == {i \in DOMAIN names : names[i] = s}
    IN IF hits = {} THEN 0 ELSE CHOOSE i \in hits : \A j \in hits : i <= j

(***************************************************************************)
(* The visitors of serde's own Deserialize impls and of derive(Deserialize)*)
(***************************************************************************)
InvalidValue(k, v) ==
    Err(ErrorFromStr("invalid value: integer '" \o ToString(v) \o "', expected " \o k))

\* The integer visitor of type k: a value out of k's range is refused.
visit_i64(k, v) ==
    IF MinOf(k) <= v /\ v <= MaxOf(k) THEN Ok(TInt(k, v)) ELSE InvalidValue(k, v)
visit_u32(k, v) == IF v <= MaxOf(k) THEN Ok(TInt(k, v)) ELSE InvalidValue(k, v)
visit_u64(k, v) == IF v <= MaxOf(k) THEN Ok(TInt(k, v)) ELSE InvalidValue(k, v)
visit_bool(v) == Ok(TBool(v))
visit_string(v) == Ok(TStr(v))
visit_unit == Ok(TUnit)
visit_f64(v) == Ok(TFloat(v))
visit_none(ty) == Ok(IF ty.k = "ignored_any" THEN TIgnored ELSE TNone)

\* The identifier visitors of derive: visit_string forwards to visit_str.
visit_str(ty, v) ==
    IF ty.name = "variant" /\ IndexOf(ty.names, v) = 0
    THEN Err(ErrorFromStr("unknown variant '" \o v \o "'"))
    ELSE Ok(TIdent(IndexOf(ty.names, v)))

(***************************************************************************)
(* de.rs: the Deserializer.                                                *)
(***************************************************************************)
\* rutie's try_convert_to::<T>: the object's class decides.
ClassesOf(type) ==
    CASE type = "Fixnum" -> {"Integer"}
      [] type = "Boolean" -> {"TrueClass", "FalseClass"}
      [] type = "RString" -> {"String"}
      [] type = "Array" -> {"Array"}
      [] type = "Float" -> {"Float"}
Object_try_convert_to(object, type) ==
    IF object.cls \in ClassesOf(type) THEN Ok(object)
    ELSE Err(ErrorFromException(Exception("TypeError", "Error converting to " \o type)))

\* The try_convert_to! macro: the conversion, with the class and the target
\* as context when it fails.
try_convert_to(object, type) ==
    chain_context(Object_try_convert_to(object, type),
                  "When deserializing '" \o object_class_name(object).v
                      \o "' as " \o type)

deserialize_long(object) == Try(try_convert_to(object, "Fixnum"), LAMBDA o : Ok(o.n))

\* deserialize_float: the Float, or else the integer cast to f64; either
\* failure gets the Float context.
deserialize_float(object) ==
    chain_context(
        IF IsOk(Object_try_convert_to(object, "Float")) THEN Ok(object.n)
        ELSE deserialize_long(object),
        "When deserializing '" \o object_class_name(object).v \o "' as Float")

deserialize_f64(object) == Try(deserialize_float(object), LAMBDA o : visit_f64(o))

deserialize_bool(object) ==
    Try(try_convert_to(object, "Boolean"), LAMBDA o : visit_bool(o.cls = "TrueClass"))

\* n reduced modulo the width of type k and read as k reads it.
WrapTo(k, n) ==
    IF Signed(k) /\ n % Pow2(BitsOf(k)) >= Pow2(BitsOf(k) - 1)
    THEN (n % Pow2(BitsOf(k))) - Pow2(BitsOf(k))
    ELSE n % Pow2(BitsOf(k))

\* deserialize_i32 with the integer cast to the requested type first.
deserialize_i32_truncating(object, k) ==
    Try(try_convert_to(object, "Fixnum"), LAMBDA o : visit_i64(k, WrapTo(k, o.n)))

deserialize_i32(object, k) ==
    Try(try_convert_to(object, "Fixnum"), LAMBDA o : visit_i64(k, o.n))
deserialize_i8(object, k) == deserialize_i32(object, k)
deserialize_i16(object, k) == deserialize_i32(object, k)
\* deserialize_i64 with the host integer taken as unsigned.
deserialize_i64_unsigned(object, k) ==
    Try(deserialize_long(object), LAMBDA num : visit_i64(k, AsU64(num)))
deserialize_i64(object, k) == Try(deserialize_long(object), LAMBDA num : visit_i64(k, num))

deserialize_u32(object, k) ==
    Try(try_convert_to(object, "Fixnum"), LAMBDA o : visit_u32(k, AsU32(o.n)))
deserialize_u8(object, k) == deserialize_u32(object, k)
deserialize_u16(object, k) == deserialize_u32(object, k)
deserialize_u64(object, k) ==
    Try(deserialize_long(object), LAMBDA num : visit_u64(k, AsU64(num)))

\* to_s on the object, then the text of the resulting string.
ObjectToString(object) ==
    Try(Deserializer_protect_send(object, "to_s", <<>>),
        LAMBDA to_s : Try(Object_try_convert_to(to_s, "RString"), LAMBDA str : Ok(str.s)))

deserialize_string(object, ty) ==
    Try(ObjectToString(object),
        LAMBDA s : IF ty.k = "identifier" THEN visit_str(ty, s) ELSE visit_string(s))
deserialize_identifier(object, ty) == deserialize_string(object, ty)

deserialize_unit(object) ==
    IF object = HNil THEN visit_unit ELSE Err(ErrorFromStr("not unit"))

deserialize_ignored_any(object, ty) == visit_none(ty)

RECURSIVE Deserialize(_, _)

\* seed.deserialize(Deserializer::new(&object)).
SeedDeserialize(ty, object) == Deserialize(object, ty)

\* None and Some(x), the answers of next_key_seed and next_element_seed.
None == <<>>
Some(x) == <<x>>
MapSome(r) == Try(r, LAMBDA v : Ok(Some(v)))

\* A cursor call returns the cursor as the call leaves it and the result;
\* the cursor's log lists the host accesses it has made so far.
Logged(self, access) == [self EXCEPT !.log = Append(@, access)]
\* A cursor step that fetches from the host first: the position moves on
\* and K decodes what was fetched only if the fetch succeeds.
Fetched(self, r, K(_)) ==
    IF IsOk(r) THEN Step([self EXCEPT !.pos = @ + 1], K(r.v)) ELSE Step(self, r)

(***************************************************************************)
(* ObjectAccess { de, fields, pos }: a struct read from an object's        *)
(* methods.                                                                *)
(***************************************************************************)
ObjectAccess_new(de, fields) ==
    [kind |-> "object", de |-> de, fields |-> fields, pos |-> 0, log |-> <<>>]

ObjectAccess_next_key_seed(self, seed) ==
    IF self.pos = Len(self.fields) THEN Step(self, Ok(None))
    ELSE IF self.pos > Len(self.fields)
    THEN Step(self, Panic("index out of bounds"))
    ELSE Step(self, MapSome(visit_str(seed, self.fields[self.pos + 1])))

ObjectAccess_value(self, seed, identifier) ==
    Fetched(Logged(self, "send " \o identifier),
            chain_context(Deserializer_protect_send(self.de, identifier, <<>>),
                          "While deserializing \"" \o identifier \o "\""),
            LAMBDA field_object :
                chain_context(SeedDeserialize(seed, field_object),
                              "While deserializing " \o identifier))

ObjectAccess_next_value_seed(self, seed) ==
    IF self.pos >= Len(self.fields)
    THEN Step(self, Panic("index out of bounds"))
    ELSE ObjectAccess_value(self, seed, self.fields[self.pos + 1])

(***************************************************************************)
(* SeqAccess { arr, pos, len }.                                            *)
(***************************************************************************)
SeqAccess_new(arr) ==
    Try(Deserializer_protect_send(arr, "length", <<>>),
        LAMBDA length :
            Try(Object_try_convert_to(length, "Fixnum"),
                LAMBDA len : Ok([kind |-> "seq", arr |-> arr, pos |-> 0, len |-> len.n,
                                 log |-> <<"length">>])))

\* next_element_seed without the step to the next position.
SeqAccess_peek_element_seed(self, seed) ==
    IF self.pos = self.len THEN Step(self, Ok(None))
    ELSE Step(Logged(self, "[] " \o ToString(self.pos)),
              Try(Deserializer_protect_send(self.arr, "[]", <<HInt(self.pos)>>),
                  LAMBDA element : MapSome(SeedDeserialize(seed, element))))

SeqAccess_next_element_seed(self, seed) ==
    IF self.pos = self.len THEN Step(self, Ok(None))
    ELSE Fetched(Logged(self, "[] " \o ToString(self.pos)),
                 Deserializer_protect_send(self.arr, "[]", <<HInt(self.pos)>>),
                 LAMBDA element : MapSome(SeedDeserialize(seed, element)))

SeqAccess_size_hint(self) == self.len - self.pos

(***************************************************************************)
(* HashAccess { de, keys, current_key, pos, len }.                         *)
(***************************************************************************)
\* rutie's Array::at: the entry, nil outside the array.
Array_at(array, i) ==
    IF i + 1 \in DOMAIN array.items THEN array.items[i + 1] ELSE HNil

HashAccess_new(de) ==
    Try(Deserializer_protect_send(de, "keys", <<>>),
        LAMBDA sent :
            Try(Object_try_convert_to(sent, "Array"),
                LAMBDA keys : Ok([kind |-> "hash", de |-> de, keys |-> keys,
                                  current_key |-> HNil, pos |-> 0,
                                  len |-> Len(keys.items), log |-> <<"keys">>])))

HashAccess_key(self, seed, key) ==
    Step([Logged(self, "at " \o ToString(self.pos)) EXCEPT !.current_key = key],
         MapSome(SeedDeserialize(seed, key)))

\* next_key_seed that decodes the key without keeping it as current_key.
HashAccess_next_key_seed_uncached(self, seed) ==
    IF self.pos = self.len THEN Step(self, Ok(None))
    ELSE Step(Logged(self, "at " \o ToString(self.pos)),
              MapSome(SeedDeserialize(seed, Array_at(self.keys, self.pos))))

HashAccess_next_key_seed(self, seed) ==
    IF self.pos = self.len THEN Step(self, Ok(None))
    ELSE HashAccess_key(self, seed, Array_at(self.keys, self.pos))

\* next_value_seed looking the key up with [], which answers nil for a key
\* without entry.
HashAccess_next_value_seed_index(self, seed) ==
    Fetched(Logged(self, "[] " \o Inspect(self.current_key)),
            chain_context(
                Deserializer_protect_send(self.de, "[]", <<self.current_key>>),
                "While deserializing " \o Inspect(self.current_key)),
            LAMBDA field_object : SeedDeserialize(seed, field_object))

HashAccess_next_value_seed(self, seed) ==
    Fetched(Logged(self, "fetch " \o Inspect(self.current_key)),
            chain_context(
                Deserializer_protect_send(self.de, "fetch", <<self.current_key>>),
                "While deserializing " \o Inspect(self.current_key)),
            LAMBDA field_object : SeedDeserialize(seed, field_object))

HashAccess_size_hint(self) == self.len - self.pos

\* The MapAccess a struct or map visitor is handed: either cursor.
MapAccess_next_key_seed(self, seed) ==
    IF self.kind = "hash" THEN HashAccess_next_key_seed(self, seed)
    ELSE ObjectAccess_next_key_seed(self, seed)
MapAccess_next_value_seed(self, seed) ==
    IF self.kind = "hash" THEN HashAccess_next_value_seed(self, seed)
    ELSE ObjectAccess_next_value_seed(self, seed)

(***************************************************************************)
(* The visitors of the compound types drive the cursors.                   *)
(***************************************************************************)
\* Vec<T>: next_element until None.
RECURSIVE VecVisitSeq(_, _, _)
VecVisitSeq(seq, ty, values) ==
    TryStep(SeqAccess_next_element_seed(seq, ty),
            LAMBDA e : IF e.res.v = None THEN Step(e.self, Ok(TSeq(values)))
                       ELSE VecVisitSeq(e.self, ty, Append(values, e.res.v[1])))

\* The fields no key named: None for an Option, an error otherwise.
RECURSIVE MissingFields(_, _, _)
MissingFields(ty, slots, i) ==
    IF i > Len(slots) THEN Ok(slots)
    ELSE IF slots[i] # None THEN MissingFields(ty, slots, i + 1)
    ELSE IF ty.tys[i].k = "option"
    THEN MissingFields(ty, [slots EXCEPT ![i] = Some(TNone)], i + 1)
    ELSE Err(ErrorFromStr("missing field '" \o ty.names[i] \o "'"))

StructFinish(ty, slots) ==
    Try(MissingFields(ty, slots, 1),
        LAMBDA filled :
            Ok(TStruct(ty.name, ty.names, [i \in DOMAIN slots |-> filled[i][1]])))

\* derive(Deserialize) of a struct: next_key until None; a known field
\* takes its value (once), any other key has its value ignored.
RECURSIVE StructVisitMap(_, _, _)
StructVisitKey(key, ty, slots, i) ==
    IF i = 0
    THEN TryStep(MapAccess_next_value_seed(key.self, IgnoredAny),
                 LAMBDA ignored : StructVisitMap(ignored.self, ty, slots))
    ELSE IF slots[i] # None
    THEN Step(key.self, Err(ErrorFromStr("duplicate field '" \o ty.names[i] \o "'")))
    ELSE TryStep(MapAccess_next_value_seed(key.self, ty.tys[i]),
                 LAMBDA value :
                     StructVisitMap(value.self, ty,
                                    [slots EXCEPT ![i] = Some(value.res.v)]))

StructVisitMap(map, ty, slots) ==
    TryStep(MapAccess_next_key_seed(map, FieldIdentifier(ty.names)),
            LAMBDA key : IF key.res.v = None
                         THEN Step(key.self, StructFinish(ty, slots))
                         ELSE StructVisitKey(key, ty, slots, key.res.v[1].n))

NoSlots(ty) == [i \in DOMAIN ty.names |-> None]

deserialize_seq(object, ty) ==
    Try(SeqAccess_new(object), LAMBDA s : VecVisitSeq(s, ty.tys[1], <<>>).res)

\* visit_seq of serde's visitor of a tuple: one next_element per member,
\* invalid_length where the cursor has no more; it does not look further.
RECURSIVE TupleVisitSeq(_, _, _)
TupleVisitSeq(seq, tys, values) ==
    IF Len(values) = Len(tys) THEN Step(seq, Ok(TTuple(values)))
    ELSE TryStep(SeqAccess_next_element_seed(seq, tys[Len(values) + 1]),
                 LAMBDA e :
                    IF e.res.v = None
                    THEN Step(e.self,
                              Err(Error_custom("invalid length " \o ToString(Len(values))
                                                  \o ", expected a tuple of size "
                                                  \o ToString(Len(tys)))))
                    ELSE TupleVisitSeq(e.self, tys, Append(values, e.res.v[1])))

deserialize_tuple(object, ty) ==
    Try(SeqAccess_new(object), LAMBDA s : TupleVisitSeq(s, ty.tys, <<>>).res)

deserialize_tuple_struct(object, ty) ==
    Err(NotImplemented("Deserializer::deserialize_tuple_struct"))

deserialize_option(object, ty) ==
    IF object = HNil THEN visit_none(ty)
    ELSE Try(Deserialize(object, ty.tys[1]), LAMBDA x : Ok(TSome(x)))

\* visit_map of a visitor of a map with text keys: next_key and next_value
\* in turn, a later entry replacing an earlier one of the same key.
MapInsert(m, k, v) ==
    IF IndexOf(m.names, k) = 0 THEN TMap(Append(m.names, k), Append(m.items, v))
    ELSE TMap(m.names, [m.items EXCEPT ![IndexOf(m.names, k)] = v])

RECURSIVE MapVisitMap(_, _, _)
MapVisitMap(map, ty, m) ==
    TryStep(HashAccess_next_key_seed(map, Prim("string")),
            LAMBDA key :
                IF key.res.v = None THEN Step(key.self, Ok(m))
                ELSE TryStep(HashAccess_next_value_seed(key.self, ty),
                             LAMBDA value :
                                 MapVisitMap(value.self, ty,
                                             MapInsert(m, key.res.v[1].s, value.res.v))))

deserialize_map(object, ty) ==
    Try(HashAccess_new(object),
        LAMBDA access : MapVisitMap(access, ty.tys[1], TMap(<<>>, <<>>)).res)

\* The branch of deserialize_struct: the object's answer to is_a?(Hash).
IsAHash(object) ==
    Try(Deserializer_protect_send(object, "is_a?", <<HStr("Hash")>>),
        LAMBDA sent : Try(Object_try_convert_to(sent, "Boolean"),
                          LAMBDA b : Ok(b.cls = "TrueClass")))

\* A decode that fails before any cursor exists.
NoCursor(res) == Step([kind |-> "none", log |-> <<>>], res)
OrNoCursor(r, K(_)) == IF IsOk(r) THEN K(r.v) ELSE NoCursor(r)

\* deserialize_struct with the branch taken on the name of the object's class.
StructDecode_by_class_name(object, ty) ==
    IF object.cls = "Hash"
    THEN OrNoCursor(HashAccess_new(object),
                    LAMBDA access : StructVisitMap(access, ty, NoSlots(ty)))
    ELSE StructVisitMap(ObjectAccess_new(object, ty.names), ty, NoSlots(ty))

\* deserialize_struct, with the cursor as the visitor leaves it.
StructDecode(object, ty) ==
    OrNoCursor(IsAHash(object),
        LAMBDA hash :
            IF hash
            THEN OrNoCursor(HashAccess_new(object),
                            LAMBDA access : StructVisitMap(access, ty, NoSlots(ty)))
            ELSE StructVisitMap(ObjectAccess_new(object, ty.names), ty, NoSlots(ty)))

deserialize_struct(object, ty) == StructDecode(object, ty).res

(***************************************************************************)
(* EnumAccess and VariantAccess: externally tagged enums.                  *)
(***************************************************************************)
\* VariantAccess { object }; the log lists the decodes of the payload.
VariantAccess_new(object) == [object |-> object, log |-> <<>>]

\* dispatches m1, then m2 on its answer.
Send2(object, m1, m2) ==
    Try(Deserializer_protect_send(object, m1, <<>>),
        LAMBDA a : Deserializer_protect_send(a, m2, <<>>))

\* The (variant_name, variant_content) pair of variant_seed.
HashVariant(object) ==
    Try(Send2(object, "keys", "first"),
        LAMBDA first_key :
    Try(Deserializer_protect_send(first_key, "to_s", <<>>),
        LAMBDA variant_name_object :
    Try(try_convert_to(variant_name_object, "RString"),
        LAMBDA variant_name :
    Try(Send2(object, "values", "first"),
        LAMBDA variant_content : Ok(<<variant_name.s, variant_content>>)))))

VariantNameAndContent(object) ==
    Try(object_class_name(object),
        LAMBDA class_name :
            IF class_name = "Hash" THEN HashVariant(object)
            ELSE Try(ObjectToString(object), LAMBDA name : Ok(<<name, object>>)))

EnumAccess_variant_seed(object, seed) ==
    Try(VariantNameAndContent(object),
        LAMBDA pair :
            Try(visit_str(seed, pair[1]),
                LAMBDA variant :
                    Ok([variant |-> variant, access |-> VariantAccess_new(pair[2])])))

VariantAccess_unit_variant(self) == Step(self, Ok(Unit))
VariantAccess_newtype_variant_seed(self, seed) ==
    Step(Logged(self, "deserialize"), SeedDeserialize(seed, self.object))
\* tuple_variant reading the payload as a sequence.
VariantAccess_tuple_variant_as_seq(self) ==
    Step(Logged(self, "deserialize"), SeedDeserialize(SeqTy(I64), self.object))
VariantAccess_tuple_variant(self) ==
    Step(self, Err(NotImplemented("VariantAccess::tuple_variant")))
VariantAccess_struct_variant(self) ==
    Step(self, Err(NotImplemented("VariantAccess::struct_variant")))

\* derive(Deserialize) of an enum, once the variant is selected: the call
\* on the VariantAccess that the variant's shape asks for.
EnumVisitVariant(ty, i, access) ==
    CASE ty.shapes[i] = "unit" ->
            TryStep(VariantAccess_unit_variant(access),
                    LAMBDA u : Step(u.self, Ok(TUnitVariant(ty.names[i]))))
      [] ty.shapes[i] = "newtype" ->
            TryStep(VariantAccess_newtype_variant_seed(access, ty.tys[i]),
                    LAMBDA x : Step(x.self, Ok(TNewtypeVariant(ty.names[i], x.res.v))))
      [] ty.shapes[i] = "tuple" -> VariantAccess_tuple_variant(access)
      [] ty.shapes[i] = "struct" -> VariantAccess_struct_variant(access)

\* deserialize_enum, with the VariantAccess as the visitor leaves it.
EnumSelected(object, ty, selected) ==
    IF IsOk(selected)
    THEN EnumVisitVariant(ty, selected.v.variant.n, selected.v.access)
    ELSE Step(VariantAccess_new(object), selected)

EnumDecode(object, ty) ==
    EnumSelected(object, ty, EnumAccess_variant_seed(object, VariantIdentifier(ty.names)))

deserialize_enum(object, ty) == EnumDecode(object, ty).res

\* deserialize_any with every instance of Hash or of a subclass of it
\* decoded as a map.
deserialize_any_is_a(object) ==
    CASE object = HNil -> deserialize_unit(object)
      [] object.cls = "Array" -> deserialize_seq(object, SeqTy(AnyTy))
      [] object.cls = "Integer" -> deserialize_i64(object, "i64")
      [] object.cls = "Float" -> deserialize_f64(object)
      [] IsHash(object) -> deserialize_map(object, MapTy(AnyTy))
      [] object.cls = "String" -> deserialize_string(object, Prim("string"))
      [] object.cls \in {"TrueClass", "FalseClass"} -> deserialize_bool(object)
      [] OTHER -> Err(ErrorFromStr("No rules to deserialize " \o object.cls))

\* deserialize_any: nil first, then the name of the object's class decides;
\* the visitor is one of a self-describing value, which takes any callback.
AnyByClassName(object, class_name) ==
    CASE class_name = "Array" -> deserialize_seq(object, SeqTy(AnyTy))
      [] class_name \in {"Fixnum", "Integer"} -> deserialize_i64(object, "i64")
      [] class_name = "Float" -> deserialize_f64(object)
      [] class_name = "Hash" -> deserialize_map(object, MapTy(AnyTy))
      [] class_name = "NilClass" -> visit_none(AnyTy)
      [] class_name = "String" -> deserialize_string(object, Prim("string"))
      [] class_name \in {"TrueClass", "FalseClass"} -> deserialize_bool(object)
      [] OTHER -> Err(ErrorFromStr("No rules to deserialize " \o class_name))

deserialize_any(object) ==
    IF object = HNil THEN deserialize_unit(object)
    ELSE Try(object_class_name(object),
             LAMBDA class_name : AnyByClassName(object, class_name))

\* T::deserialize(Deserializer::new(&object)): the Deserializer method that
\* type ty asks for, fed to ty's visitor.
Deserialize(object, ty) ==
    CASE ty.k = "bool" -> deserialize_bool(object)
      [] ty.k = "any" -> deserialize_any(object)
      [] ty.k = "f64" -> deserialize_f64(object)
      [] ty.k = "map" -> deserialize_map(object, ty)
      [] ty.k = "i8" -> deserialize_i8(object, ty.k)
      [] ty.k = "i16" -> deserialize_i16(object, ty.k)
      [] ty.k = "i32" -> deserialize_i32(object, ty.k)
      [] ty.k = "i64" -> deserialize_i64(object, ty.k)
      [] ty.k = "u8" -> deserialize_u8(object, ty.k)
      [] ty.k = "u16" -> deserialize_u16(object, ty.k)
      [] ty.k = "u32" -> deserialize_u32(object, ty.k)
      [] ty.k = "u64" -> deserialize_u64(object, ty.k)
      [] ty.k = "string" -> deserialize_string(object, ty)
      [] ty.k = "identifier" -> deserialize_identifier(object, ty)
      [] ty.k = "ignored_any" -> deserialize_ignored_any(object, ty)
      [] ty.k = "unit" -> deserialize_unit(object)
      [] ty.k = "option" -> deserialize_option(object, ty)
      [] ty.k = "seq" -> deserialize_seq(object, ty)
      [] ty.k = "tuple" -> deserialize_tuple(object, ty)
      [] ty.k = "tuple_struct" -> deserialize_tuple_struct(object, ty)
      [] ty.k = "struct" -> deserialize_struct(object, ty)
      [] ty.k = "enum" -> deserialize_enum(object, ty)

\* from_object.
from_object(object, ty) == Deserialize(object, ty)

(***************************************************************************)
(* The inputs of the checked calls.                                        *)
(***************************************************************************)
Strs == {"", "a", "Other"}

\* struct Point { a: i64, b: i64 }
PointTy == StructTy("Point", <<"a", "b">>, <<I64, I64>>)
\* struct Foo { bar: i64 }  and  struct Outer { items: Vec<Foo> }
FooTy == StructTy("Foo", <<"bar">>, <<I64>>)
OuterTy == StructTy("Outer", <<"items">>, <<SeqTy(FooTy)>>)
\* enum E { Variant(i64), Text(String), Maybe(Option<bool>), Other, Unit,
\*          Pair(i64, i64), Rec { a: i64 } }
ETy ==
    EnumTy("E", <<"Variant", "Text", "Maybe", "Other", "Unit", "Pair", "Rec">>,
           <<"newtype", "newtype", "newtype", "unit", "unit", "tuple", "struct">>,
           <<I64, Prim("string"), OptionTy(Prim("bool")), Prim("unit"), Prim("unit"),
             Prim("unit"), Prim("unit")>>)

\* (i64, i64), and struct Version(i64, i64).
PairTy == TupleTy(<<I64, I64>>)
VersionTy == TupleStructTy("Version", <<I64, I64>>)

IntValues == UNION {{TInt(k, n) : n \in MinOf(k)..MaxOf(k)} : k \in IntKinds}
PrimValues == {TBool(b) : b \in BOOLEAN} \cup IntValues \cup {TStr(x) : x \in Strs}
SmallInts == {TInt("i64", n) : n \in {0 - 1, 0, 5}}

\* The values of enum E.
EValues ==
    {TNewtypeVariant("Variant", x) : x \in SmallInts}
        \cup {TNewtypeVariant("Text", TStr(x)) : x \in Strs}
        \cup {TNewtypeVariant("Maybe", x) : x \in {TNone, TSome(TBool(TRUE))}}
        \cup {TUnitVariant("Other"), TUnitVariant("Unit")}
        \cup {TTupleVariant("Pair", <<x, x>>) : x \in SmallInts}
        \cup {TStructVariant("Rec", <<"a">>, <<x>>) : x \in SmallInts}

Pair(value, ty) == [value |-> value, ty |-> ty]

\* The (value, type) pairs handed to new_ruby_object and back to from_object.
Inputs ==
    {Pair(v, Prim(v.t)) : v \in PrimValues}
        \cup {Pair(v, ETy) : v \in EValues}
        \cup {Pair(TSeq(<<x, TTupleVariant("Pair", <<x, x>>)>>), SeqTy(ETy)) :
                x \in SmallInts}
        \cup {Pair(TStruct("Point", <<"a", "b">>, <<x, y>>), PointTy) :
                x \in SmallInts, y \in SmallInts}
        \cup {Pair(TMap(<<"a", "b">>, <<x, y>>), MapTy(I64)) :
                x \in SmallInts, y \in SmallInts}
        \cup {Pair(TMap(<<"b">>, <<x>>), MapTy(I64)) : x \in SmallInts}
        \cup {Pair(TMap(<<>>, <<>>), MapTy(I64))}

\* Host objects to decode.
Leaves == {HNil, HBool(TRUE), HInt(1), HInt(2), HStr("x")}
SeqsOf(S) == UNION {[1..n -> S] : n \in 0..MaxElems}
Names == {HStr("a"), HSym("a"), HStr("b"), HSym("b"), HSym("c")}
Injective(f) == \A i, j \in DOMAIN f : f[i] = f[j] => i = j

\* Hashes (and instances of a subclass) with up to MaxElems entries; an
\* HAbsent value is an enumerated key whose lookup finds no entry.
HashValues == {HInt(1), HStr("x"), HAbsent}
StructHashes ==
    UNION {{Host(cls, 0, "", vals, keys) :
                cls \in HashClasses,
                keys \in {k \in [1..n -> Names] : Injective(k)},
                vals \in [1..n -> HashValues]} : n \in 0..MaxElems}

\* The object whose methods are the keys of hash h, answering its values
\* (nil where the hash holds no entry).
ObjectOf(h) ==
    HObj("Point", [i \in DOMAIN h.keys |-> h.keys[i].s],
         [i \in DOMAIN h.items |-> IF h.items[i] = HAbsent THEN HNil ELSE h.items[i]])

\* Outer as an object or a hash, its items Foo objects or hashes.
FooHosts ==
    UNION {{HObj("Foo", <<"bar">>, <<x>>), HHash(<<HSym("bar")>>, <<x>>)} :
            x \in {HInt(1), HStr("x")}}
OuterHosts ==
    UNION {{HObj("Outer", <<"items">>, <<HArr(foos)>>),
            HHash(<<HStr("items")>>, <<HArr(foos)>>)} : foos \in SeqsOf(FooHosts)}

\* What an enum is decoded from: names, and hashes of zero to two entries.
Tags == {"Variant", "Other", "Pair", "Rec", "Nope"}
Payloads == {HNil, HInt(5), HStr("Pair"), HArr(<<HInt(1), HInt(2)>>)}
EnumHosts ==
    {HStr(t) : t \in Tags} \cup {HSym(t) : t \in Tags} \cup {HInt(5), HHash(<<>>, <<>>)}
        \cup {Host(cls, 0, "", <<x>>, <<k>>) :
                cls \in HashClasses, x \in Payloads,
                k \in {HStr(t) : t \in Tags} \cup {HSym(t) : t \in Tags}}
        \cup {HHash(<<HSym(t), HSym("Other")>>, <<x, HNil>>) :
                t \in Tags \ {"Other"}, x \in Payloads}

\* Objects of every class deserialize_any has a rule for, and of some it
\* has none for.
AnyHosts ==
    Leaves \cup {HBool(FALSE), HFloat(2), HSym("a")}
        \cup {HArr(e) : e \in SeqsOf({HInt(1), HNil, HSym("a")})}
        \cup {HArr(<<HArr(<<HStr("x")>>)>>)}
        \cup {Host(cls, 0, "", <<v>>, <<k>>) :
                cls \in HashClasses, k \in {HStr("a"), HSym("a")},
                v \in {HInt(1), HFloat(2), HSym("a"), HArr(<<HNil>>)}}
        \cup {HHash(<<>>, <<>>), HHash(<<HStr("a"), HSym("a")>>, <<HInt(1), HInt(2)>>),
              HObj("Point", <<"x">>, <<HInt(1)>>)}

\* Objects whose own methods answer where an Array or a Hash would: a
\* length that is no Integer, a key list that is no Array.
Bag == HObj("Bag", <<"length">>, <<HStr("two")>>)
Registry == HObj("Registry", <<"keys">>, <<HStr("a b")>>)

\* The (object, type) pairs handed to from_object.
DecodeInputs ==
    {Pair(o, Prim(k)) :
        o \in Leaves \cup {HInt(n) : n \in MinOf("i64")..MaxOf("i64")},
        k \in IntKinds \cup {"bool", "string", "unit"}}
        \cup {Pair(o, SeqTy(I64)) : o \in {HArr(e) : e \in SeqsOf(Leaves)} \cup Leaves}
        \cup {Pair(o, AnyTy) : o \in AnyHosts}
        \cup {Pair(Bag, SeqTy(I64)), Pair(Bag, PairTy), Pair(HArr(<<Bag>>), SeqTy(SeqTy(I64))),
              Pair(Registry, MapTy(I64)), Pair(HHash(<<HStr("a")>>, <<HStr("x")>>), MapTy(I64)),
              Pair(HHash(<<HStr("a")>>, <<HInt(1)>>), MapTy(I64))}
        \cup {Pair(o, Prim("f64")) : o \in {HFloat(2), HInt(1), HStr("x"), HNil}}
        \cup {Pair(o, ty) : o \in {HArr(e) : e \in SeqsOf(Leaves)} \cup Leaves,
                            ty \in {PairTy, VersionTy}}
        \cup {Pair(o, OuterTy) : o \in OuterHosts}
        \cup {Pair(o, ETy) : o \in EnumHosts}

\* What a cursor is opened on, and the seeds its calls are given.
CursorArrays == {HArr(e) : e \in SeqsOf({HInt(1), HStr("x")})}
CursorKeys == {HStr("a"), HSym("b"), HInt(7)}
CursorHashes ==
    UNION {{HHash(keys, vals) :
                keys \in {k \in [1..n -> CursorKeys] : Injective(k)},
                vals \in [1..n -> HashValues]} : n \in 0..MaxElems}
CursorObjects ==
    {HObj("Point", <<"a", "b">>, <<x, y>>) : x \in {HInt(1), HStr("x")}, y \in {HInt(2)}}
        \cup {HObj("Point", <<"b">>, <<HInt(2)>>)}
ValueSeeds == {I64, IgnoredAny}

\* What the serialize_key and serialize_value calls of a map are given.
BuilderKeys == {TStr("a"), TStr("b"), TTupleVariant("Pair", <<>>), TFailing("custom")}
BuilderValues == {TInt("i64", 1), TInt("i64", 2), TFailing("custom")}
\* The Serializer methods that return a builder, and those of them that
\* return a SeqSerializer.
SeqKinds == {"seq", "tuple", "tuple_struct"}
BuilderKinds == SeqKinds \cup {"map", "struct"}
\* The field names handed to a struct builder.
BuilderFields == {"a", "b"}
\* No builder.
NoBuilderYet == <<>>

\* The method the harness wraps:
\*   fn method(a: i64, b: String) -> Result<R, BodyError> { body }
\* the argument lists it is called with and the ways its body ends.
MethodName == "method"
ArgNames == <<"a", "b">>
ArgTypeNames == <<"i64", "String">>
ArgTys == <<I64, Prim("string")>>
ExceptionClass == "RustError"
ArgumentLists == SeqsOf({HInt(1), HStr("x"), HNil}) \cup {<<HInt(1), HStr("x"), HNil>>}
BodyResults ==
    {Ok(TInt("i64", 1)), Ok(TTupleVariant("Pair", <<>>)), Ok(TFailing("custom")),
     Err(Exception("BodyError", "failed")), Panic("body panicked")}

(***************************************************************************)
(* The state.                                                              *)
(*   Conversion calls: the typed value and the type of the call, the host  *)
(*   object serialized to or decoded from, the result, and for a struct    *)
(*   decoded in both modes the result of the object mode.                  *)
(*   Cursor calls: the cursor, and one event for each call made on it.     *)
(*   Builder calls: the builder, one event for each call made on it, and   *)
(*   the Serializer method that returned it.                               *)
(*   A harness call: its position, the raw arguments, the index _i, the    *)
(*   decoded arguments, what the body returned, the stages run, the host   *)
(*   object returned, the exceptions raised, the thread's saved panic      *)
(*   message, and the messages saved since the call began.                 *)
(***************************************************************************)
VARIABLES stage, value, target, object, result, twin,
          cursor, hist,
          builder, calls, opened,
          pc, arguments, i, decoded, returned_value, trace, returned, raised,
          panic_message, stashed,
          outcome, chained, closures, rendered

convVars == <<stage, value, target, object, result, twin>>
cursorVars == <<cursor, hist>>
builderVars == <<builder, calls, opened>>
harnessVars ==
    <<pc, arguments, i, decoded, returned_value, trace, returned, raised, panic_message,
      stashed>>
errorVars == <<outcome, chained, closures, rendered>>
vars == <<convVars, cursorVars, builderVars, harnessVars, errorVars>>

NoResult == [st |-> "none"]
NoCursorYet == [kind |-> "none", log |-> <<>>]

ConvInit ==
    /\ stage = "idle"
    /\ value = TUnit
    /\ target = Prim("unit")
    /\ object = HNil
    /\ result = NoResult
    /\ twin = NoResult

CursorInit ==
    /\ cursor = NoCursorYet
    /\ hist = <<>>

\* No builder has been asked of the Serializer yet.
BuilderInit ==
    /\ builder = NoBuilderYet
    /\ calls = <<>>
    /\ opened = "none"

HarnessInit ==
    /\ pc = "idle"
    /\ arguments = <<>>
    /\ i = 0
    /\ decoded = <<>>
    /\ returned_value = NoResult
    /\ trace = <<>>
    /\ returned = None
    /\ raised = <<>>
    /\ panic_message = None
    /\ stashed = {}

ErrorInit ==
    /\ outcome = NoResult
    /\ chained = <<>>
    /\ closures = 0
    /\ rendered = <<>>

Init == ConvInit /\ CursorInit /\ BuilderInit /\ HarnessInit /\ ErrorInit

(***************************************************************************)
(* Conversion calls.                                                       *)
(***************************************************************************)
\* new_ruby_object(value).
NewRubyObject(in) ==
    /\ stage = "idle"
    /\ stage' = "serialized"
    /\ value' = in.value
    /\ target' = in.ty
    /\ result' = new_ruby_object(in.value)
    /\ object' = IF IsOk(result') THEN result'.v ELSE HNil
    /\ UNCHANGED <<twin, cursorVars, builderVars, harnessVars, errorVars>>

\* from_object on the object new_ruby_object returned, as the value's type.
FromObject ==
    /\ stage = "serialized"
    /\ IsOk(result)
    /\ stage' = "round_trip"
    /\ result' = from_object(object, target)
    /\ UNCHANGED <<value, target, object, twin, cursorVars, builderVars, harnessVars, errorVars>>

\* from_object on a host object.
Decode(in) ==
    /\ stage = "idle"
    /\ stage' = "decoded"
    /\ object' = in.value
    /\ target' = in.ty
    /\ result' = from_object(in.value, in.ty)
    /\ UNCHANGED <<value, twin, cursorVars, builderVars, harnessVars, errorVars>>

\* deserialize_struct of Point on a hash, and on the object that answers
\* the hash's keys as methods; each with the cursor the visitor leaves.
DecodeStruct(h) ==
    /\ stage = "idle"
    /\ stage' = "struct"
    /\ object' = h
    /\ target' = PointTy
    /\ result' = StructDecode(h, PointTy)
    /\ twin' = StructDecode(ObjectOf(h), PointTy)
    /\ UNCHANGED <<value, cursorVars, builderVars, harnessVars, errorVars>>

\* deserialize_enum of E, with the VariantAccess the visitor leaves.
DecodeEnum(o) ==
    /\ stage = "idle"
    /\ stage' = "enum"
    /\ object' = o
    /\ target' = ETy
    /\ result' = EnumDecode(o, ETy)
    /\ UNCHANGED <<value, twin, cursorVars, builderVars, harnessVars, errorVars>>

ConvNext ==
    \/ \E in \in Inputs : NewRubyObject(in)
    \/ FromObject
    \/ \E in \in DecodeInputs : Decode(in)
    \/ \E h \in StructHashes : DecodeStruct(h)
    \/ \E o \in EnumHosts : DecodeEnum(o)

Spec == Init /\ [][ConvNext]_vars

(***************************************************************************)
(* Properties of the conversion calls.                                     *)
(***************************************************************************)
Range(f) == {f[n] : n \in DOMAIN f}
IsPrefix(p, q) == Len(p) <= Len(q) /\ \A n \in DOMAIN p : p[n] = q[n]

PrimitiveKinds == {"bool", "string"} \cup IntKinds
InI64Range(v) == v.t \in IntKinds => (MinOf("i64") <= v.n /\ v.n <= MaxOf("i64"))

\* C1: a bool, an integer of any width whose value lies in the signed
\* 64-bit range, or a text value serializes without error, and the object
\* it serializes to deserializes as the value's own type to an equal value.
C1_PrimitiveRoundTrip ==
    (value.t \in PrimitiveKinds /\ InI64Range(value)) =>
        /\ stage = "serialized" => IsOk(result)
        /\ stage = "round_trip" => result = Ok(value)

\* A u32 with its top bit set and a negative i64 have made the round trip.
C1_Witness ==
    /\ stage = "round_trip"
    /\ value \in {TInt("u32", MaxOf("u32")), TInt("i64", MinOf("i64"))}
    /\ result = Ok(value)

\* The hash names each declared field of ty exactly once, by a string or a
\* symbol key, and holds an entry for every key.
NamesTheFields(h, ty) ==
    /\ Len(h.keys) = Len(ty.names)
    /\ {h.keys[n].s : n \in DOMAIN h.keys} = Range(ty.names)
    /\ \A n \in DOMAIN h.keys : h.keys[n].cls \in {"String", "Symbol"}
    /\ \A n \in DOMAIN h.items : h.items[n] # HAbsent

\* The host accesses of a map-mode traversal of h that visits every key:
\* keys, then for each enumerated key its read and the lookup of its value.
RECURSIVE HashTraversal(_, _)
HashTraversal(h, n) ==
    IF n > Len(h.keys) THEN <<>>
    ELSE <<"at " \o ToString(n - 1), "fetch " \o Inspect(h.keys[n])>>
             \o HashTraversal(h, n + 1)

\* The host accesses of an object-mode traversal: one dispatch for each
\* declared field, in declaration order.
ObjectTraversal(ty) == [n \in DOMAIN ty.names |-> "send " \o ty.names[n]]

\* C2: a struct decodes to the same typed struct from a hash whose keys are
\* the field names and from an object whose methods answer the same values;
\* the mode is map mode exactly when the object answers is_a?(Hash) with
\* true; map mode follows the keys the host enumerates, object mode
\* dispatches the declared fields in declaration order.
C2_StructModes ==
    stage = "struct" =>
        /\ (result.self.kind = "hash") <=> IsHash(object)
        /\ twin.self.kind = "object"
        /\ NamesTheFields(object, target) =>
              /\ IsOk(result.res) <=> IsOk(twin.res)
              /\ IsOk(result.res) => result.res = twin.res
        /\ IsPrefix(result.self.log, <<"keys">> \o HashTraversal(object, 1))
        /\ IsOk(result.res) => result.self.log = <<"keys">> \o HashTraversal(object, 1)
        /\ IsPrefix(twin.self.log, ObjectTraversal(target))
        /\ IsOk(twin.res) => twin.self.log = ObjectTraversal(target)

\* A hash of a Hash subclass, keys in the order b, a, and its object twin
\* have both decoded to Point { a: 1, b: 1 }.
C2_Witness ==
    /\ stage = "struct"
    /\ object.cls = "Params"
    /\ object.keys = <<HSym("b"), HStr("a")>>
    /\ NamesTheFields(object, target)
    /\ result.res = Ok(TStruct("Point", <<"a", "b">>, <<TInt("i64", 1), TInt("i64", 1)>>))
    /\ twin.res = result.res

\* C4: a newtype variant V(x) serializes to a hash of one entry, the symbol
\* V to the serialization of x, and that hash deserializes to V(x); a unit
\* variant U serializes to the string U, and that string deserializes to U.
C4_EnumRoundTrip ==
    /\ value.t = "newtype_variant" =>
          /\ stage \in {"serialized", "round_trip"} =>
                object = HHash(<<HSym(value.s)>>, <<Serialize(value.items[1]).v>>)
          /\ stage = "serialized" => result = Ok(object)
          /\ stage = "round_trip" => result = Ok(value)
    /\ value.t = "unit_variant" =>
          /\ stage \in {"serialized", "round_trip"} => object = HStr(value.s)
          /\ stage = "serialized" => result = Ok(object)
          /\ stage = "round_trip" => result = Ok(value)

\* Variant(5) has gone through { :Variant => 5 } and back.
C4_Witness ==
    /\ stage = "round_trip"
    /\ value = TNewtypeVariant("Variant", TInt("i64", 5))
    /\ object = HHash(<<HSym("Variant")>>, <<HInt(5)>>)
    /\ result = Ok(value)

\* C5: serializing a tuple variant or a struct variant returns an error of
\* the NotImplemented kind (it does not panic and returns no object).
C5_VariantSerializeNotImplemented ==
    (stage = "serialized" /\ value.t \in {"tuple_variant", "struct_variant"}) =>
        (IsErr(result) /\ result.err.kind = "NotImplemented")

\* The shape of the variant that variant_seed selects for object o as an E.
SelectedShape(o) ==
    Let(EnumAccess_variant_seed(o, VariantIdentifier(ETy.names)),
        LAMBDA selected : IF IsOk(selected) THEN ETy.shapes[selected.v.variant.n]
                          ELSE "none")

\* C6: when the variant selected is a tuple or a struct variant, the decode
\* fails with an error of the NotImplemented kind whatever the payload, and
\* the variant access makes no decode of, or dispatch on, the payload.
C6_VariantDeserializeNotImplemented ==
    SelectedShape(object) \in {"tuple", "struct"} =>
        /\ stage = "enum" =>
              /\ IsErr(result.res)
              /\ result.res.err.kind = "NotImplemented"
              /\ result.self.log = <<>>
        /\ (stage = "decoded" /\ target = ETy) =>
              (IsErr(result) /\ result.err.kind = "NotImplemented")

\* { :Pair => [1, 2] } has been decoded as an E.
C6_Witness ==
    /\ stage = "enum"
    /\ object = HHash(<<HSym("Pair")>>, <<HArr(<<HInt(1), HInt(2)>>)>>)
    /\ result.res = Err(NotImplemented("VariantAccess::tuple_variant"))

\* An Outer was decoded and the decode failed on a type mismatch inside an
\* element of its items.
DepthFailure ==
    /\ stage = "decoded"
    /\ target = OuterTy
    /\ IsErr(result)
    /\ result.err.kind = "RutieException"
    /\ result.err.cls = "TypeError"
    /\ result.err.context # <<>>
    /\ result.err.context[1] = "When deserializing 'String' as Fixnum"

\* C8: an error from a decode that failed at depth carries, after the
\* type mismatch, one context string for each enclosing level: the element
\* index, the field name and the enclosing struct.
C8_ContextPerLevel == DepthFailure => Len(result.err.context) >= 1 + 3

(***************************************************************************)
(* Cursor calls: a cursor is opened on a host object, and next_key_seed,   *)
(* next_value_seed and next_element_seed are called on it in any order.    *)
(***************************************************************************)
MaxCalls == 5

\* The entries a cursor walks.
CursorLen(self) == IF self.kind = "object" THEN Len(self.fields) ELSE self.len

\* The record of one call: the position and the length it found, the key
\* held by a hash cursor, its result, and what it did to the cursor.
Event(call, self, step) ==
    [call |-> call, pos |-> self.pos, len |-> CursorLen(self),
     key |-> IF self.kind = "hash" THEN self.current_key ELSE HNil,
     res |-> step.res,
     accesses |-> Len(step.self.log) - Len(self.log),
     advanced |-> step.self.pos - self.pos]

\* A panic unwinds through the caller: no call follows it.
Callable ==
    /\ cursor.kind # "none"
    /\ Len(hist) < MaxCalls
    /\ \A n \in DOMAIN hist : ~IsPanic(hist[n].res)

\* SeqAccess::new(arr).
OpenSeq(arr) ==
    /\ cursor = NoCursorYet
    /\ IsOk(SeqAccess_new(arr))
    /\ cursor' = SeqAccess_new(arr).v
    /\ UNCHANGED <<hist, convVars, builderVars, harnessVars, errorVars>>

\* HashAccess::new(de).
OpenHash(h) ==
    /\ cursor = NoCursorYet
    /\ IsOk(HashAccess_new(h))
    /\ cursor' = HashAccess_new(h).v
    /\ UNCHANGED <<hist, convVars, builderVars, harnessVars, errorVars>>

\* ObjectAccess::new(de, fields), on the fields of Point.
OpenObject(o) ==
    /\ cursor = NoCursorYet
    /\ cursor' = ObjectAccess_new(o, PointTy.names)
    /\ UNCHANGED <<hist, convVars, builderVars, harnessVars, errorVars>>

\* The call whose step is given, on the cursor.
Called(call, step) ==
    /\ cursor' = step.self
    /\ hist' = Append(hist, Event(call, cursor, step))
    /\ UNCHANGED <<convVars, builderVars, harnessVars, errorVars>>

NextElement(seed) ==
    /\ Callable
    /\ cursor.kind = "seq"
    /\ Called("next_element", SeqAccess_next_element_seed(cursor, seed))

NextKey ==
    /\ Callable
    /\ cursor.kind \in {"hash", "object"}
    /\ Called("next_key", MapAccess_next_key_seed(cursor, FieldIdentifier(PointTy.names)))

NextValue(seed) ==
    /\ Callable
    /\ cursor.kind \in {"hash", "object"}
    /\ Called("next_value", MapAccess_next_value_seed(cursor, seed))

CursorNext ==
    \/ \E arr \in CursorArrays : OpenSeq(arr)
    \/ \E h \in CursorHashes : OpenHash(h)
    \/ \E o \in CursorObjects : OpenObject(o)
    \/ \E seed \in ValueSeeds : NextElement(seed)
    \/ NextKey
    \/ \E seed \in ValueSeeds : NextValue(seed)

SpecCursor == Init /\ [][CursorNext]_vars

\* The calls that yield an index: a next-key or next-element call made
\* before the end.
Yields ==
    {n \in DOMAIN hist :
        hist[n].call \in {"next_key", "next_element"} /\ hist[n].pos < hist[n].len}

\* A next-key or next-element call at the end answers None and makes no
\* host access.
ExhaustedReportsNone ==
    \A n \in DOMAIN hist :
        (hist[n].call \in {"next_key", "next_element"} /\ hist[n].pos = hist[n].len) =>
            (hist[n].res = Ok(None) /\ hist[n].accesses = 0 /\ hist[n].advanced = 0)

\* No two calls yield the same index.
NoIndexTwice == \A m, n \in Yields : m # n => hist[m].pos # hist[n].pos

\* C3 as claimed: in any sequence of calls on any of the three cursors, a
\* call at the end reports None without host access and no index is
\* yielded twice.
C3_AnySequence == ExhaustedReportsNone /\ NoIndexTwice

\* C3: in any sequence of calls, a next-key or next-element call at the
\* end reports None without host access; the sequence cursor yields no
\* index twice; a map or object cursor yields indices in ascending order,
\* and yields an index again only while no next-value call has fetched
\* that entry's value.
C3_CursorExhaustion ==
    /\ ExhaustedReportsNone
    /\ cursor.kind = "seq" => NoIndexTwice
    /\ \A m, n \in Yields :
          m < n =>
              /\ hist[m].pos <= hist[n].pos
              /\ hist[m].pos = hist[n].pos =>
                    \A k \in m..n : ~(hist[k].call = "next_value" /\ hist[k].advanced > 0)
    /\ \A n \in DOMAIN hist : hist[n].advanced \in {0, 1}

\* A hash cursor over one key yielded it, fetched its value, and then
\* reported the end twice.
C3_Witness ==
    /\ cursor.kind = "hash"
    /\ Len(hist) = 4
    /\ hist[1].call = "next_key" /\ hist[1].pos = 0 /\ IsOk(hist[1].res)
    /\ hist[2].call = "next_value" /\ hist[2].advanced = 1
    /\ hist[3].call = "next_key" /\ hist[3].pos = 1 /\ hist[3].len = 1
    /\ hist[3].res = Ok(None)
    /\ hist[4].call = "next_key" /\ hist[4].res = Ok(None)

\* The hash the cursor is on holds no entry under key k.
NoEntry(h, k) == KeyIndex(h, k) = 0

\* C7: when the hash holds no entry for the key a hash cursor has read, the
\* next-value call fails with an error of the RutieException kind that
\* wraps the KeyError the lookup raised, with the key in its one context
\* string; the cursor stays on that key and no value is yielded.
C7_MissingKey ==
    \A n \in DOMAIN hist :
        (cursor.kind = "hash" /\ hist[n].call = "next_value"
            /\ NoEntry(cursor.de, hist[n].key)) =>
            /\ IsErr(hist[n].res)
            /\ hist[n].res.err.kind = "RutieException"
            /\ hist[n].res.err.cls = "KeyError"
            /\ hist[n].res.err.context =
                   <<"While deserializing " \o Inspect(hist[n].key)>>
            /\ hist[n].advanced = 0

\* A hash cursor read the key :b, which is enumerated without an entry, and
\* its value was asked for.
C7_Witness ==
    /\ cursor.kind = "hash"
    /\ Len(hist) = 2
    /\ hist[1].call = "next_key" /\ IsOk(hist[1].res)
    /\ hist[2].call = "next_value" /\ hist[2].key = HSym("b")
    /\ NoEntry(cursor.de, HSym("b"))
    /\ hist[2].res.err.context = <<"While deserializing :b">>

(***************************************************************************)
(* Builder calls: a builder is asked of the Serializer, the methods of the  *)
(* trait it was returned as are called on it in any order, and end is      *)
(* called on it at most once, as the last call.                            *)
(***************************************************************************)
\* The record of one call: its argument, its result, and the builder
\* before and after it.
BuilderEvent(call, arg, self, step) ==
    [call |-> call, arg |-> arg, res |-> step.res, before |-> self, after |-> step.self]

BuilderCallable ==
    /\ Len(calls) < MaxCalls
    /\ \A n \in DOMAIN calls : ~IsPanic(calls[n].res) /\ calls[n].call # "end"

BuilderCalled(call, arg, step) ==
    /\ builder' = step.self
    /\ calls' = Append(calls, BuilderEvent(call, arg, builder, step))
    /\ UNCHANGED <<opened, convVars, cursorVars, harnessVars, errorVars>>

\* The builder each Serializer method returns.
Opened(kind) ==
    CASE kind = "seq" -> serialize_seq
      [] kind = "tuple" -> serialize_tuple
      [] kind = "tuple_struct" -> serialize_tuple_struct
      [] kind = "map" -> serialize_map
      [] kind = "struct" -> serialize_struct

\* serialize_seq, serialize_tuple, serialize_tuple_struct, serialize_map
\* or serialize_struct is called on the Serializer.
OpenBuilder(kind) ==
    /\ opened = "none"
    /\ opened' = kind
    /\ builder' = Opened(kind).v
    /\ UNCHANGED <<calls, convVars, cursorVars, harnessVars, errorVars>>

\* The method that adds one element to a builder of a sequence kind.
PushElement(kind, self, v) ==
    CASE kind = "seq" -> SeqSerializer_serialize_element(self, v)
      [] kind = "tuple" -> SerializeTuple_serialize_element(self, v)
      [] kind = "tuple_struct" -> SerializeTupleStruct_serialize_field(self, v)

SerializeElement(v) ==
    /\ opened \in SeqKinds
    /\ BuilderCallable
    /\ BuilderCalled(IF opened = "tuple_struct" THEN "serialize_field"
                                                ELSE "serialize_element",
                     v, PushElement(opened, builder, v))

SerializeKey(key) ==
    /\ opened = "map"
    /\ BuilderCallable
    /\ BuilderCalled("serialize_key", key, MapSerializer_serialize_key(builder, key))

SerializeValue(v) ==
    /\ opened = "map"
    /\ BuilderCallable
    /\ BuilderCalled("serialize_value", v, MapSerializer_serialize_value(builder, v))

SerializeField(key, v) ==
    /\ opened = "struct"
    /\ BuilderCallable
    /\ BuilderCalled("serialize_field", v, MapSerializer_serialize_field(builder, key, v))

\* end of the trait the builder was returned as.
EndOf(kind, self) ==
    CASE kind = "seq" -> SeqSerializer_end(self)
      [] kind = "tuple" -> SerializeTuple_end(self)
      [] kind = "tuple_struct" -> SerializeTupleStruct_end(self)
      [] kind = "map" -> MapSerializer_end(self)
      [] kind = "struct" -> SerializeStruct_end(self)

End ==
    /\ opened # "none"
    /\ BuilderCallable
    /\ BuilderCalled("end", Unit, Step(builder, EndOf(opened, builder)))

BuilderNext ==
    \/ \E kind \in BuilderKinds : OpenBuilder(kind)
    \/ \E v \in BuilderValues : SerializeElement(v)
    \/ \E key \in BuilderKeys : SerializeKey(key)
    \/ \E v \in BuilderValues : SerializeValue(v)
    \/ \E key \in BuilderFields, v \in BuilderValues : SerializeField(key, v)
    \/ End

SpecBuilder == Init /\ [][BuilderNext]_vars

\* Call m is a successful serialize_key with no serialize_value call
\* between it and call n.
KeyFor(m, n) ==
    /\ m < n
    /\ calls[m].call = "serialize_key"
    /\ IsOk(calls[m].res)
    /\ \A k \in (m + 1)..(n - 1) : calls[k].call # "serialize_value"

\* C9: a serialize_value call stores an entry only when a serialize_key
\* call was made since the previous serialize_value call (or since the
\* builder was made), and stores its value under that key; without such a
\* key it fails with the message "no key given" and stores nothing.
C9_KeyThenValue ==
    \A n \in DOMAIN calls :
        calls[n].call = "serialize_value" =>
            /\ IsOk(calls[n].res) => \E m \in DOMAIN calls : KeyFor(m, n)
            /\ (~ \E m \in DOMAIN calls : KeyFor(m, n)) =>
                  /\ calls[n].res = Err(ErrorFromStr("no key given"))
                  /\ calls[n].after = calls[n].before

\* The host objects of the values pushed by the successful calls among the
\* first n, in the order of the calls: each is the serialization of the
\* call's argument alone.
RECURSIVE Pushed(_)
Pushed(n) ==
    IF n = 0 THEN <<>>
    ELSE IF calls[n].call # "end" /\ IsOk(calls[n].res)
         THEN Append(Pushed(n - 1), new_ruby_object(calls[n].arg).v)
         ELSE Pushed(n - 1)

\* C22: end() on a sequence, tuple or tuple-struct builder returns a host
\* array whose elements are, in order, the serializations of the values of
\* the successful pushes made on the builder, one element for each push,
\* each the serialization of its value alone.
C22_PushedThenEnd ==
    \A n \in DOMAIN calls :
        (opened \in SeqKinds /\ calls[n].call = "end") =>
            /\ calls[n].res = Ok(HArr(Pushed(n - 1)))
            /\ \A m \in 1..(n - 1) :
                   IsOk(calls[m].res) =>
                       /\ Len(calls[m].after.array.items) =
                              Len(calls[m].before.array.items) + 1
                       /\ calls[m].after.array.items[Len(calls[m].after.array.items)] =
                              new_ruby_object(calls[m].arg).v

C22_Witness ==
    /\ opened \in SeqKinds
    /\ Len(calls) = 4
    /\ calls[1].arg = TInt("i64", 2) /\ IsOk(calls[1].res)
    /\ calls[2].arg = TFailing("custom") /\ IsErr(calls[2].res)
    /\ calls[3].arg = TInt("i64", 1) /\ IsOk(calls[3].res)
    /\ calls[4].call = "end"
    /\ calls[4].res = Ok(HArr(<<HInt(2), HInt(1)>>))

\* C23: a serialize_element, serialize_key, serialize_value or
\* serialize_field call whose argument fails to serialize returns that
\* failure and leaves the builder, its array or hash and its cached key,
\* as it was before the call.
C23_FailedStepCommitsNothing ==
    \A n \in DOMAIN calls :
        (/\ calls[n].call # "end"
         /\ IsErr(new_ruby_object(calls[n].arg))
         /\ ~(calls[n].call = "serialize_value" /\ calls[n].before.current_key = <<>>)) =>
            /\ calls[n].res = new_ruby_object(calls[n].arg)
            /\ calls[n].after = calls[n].before
            /\ n = Len(calls) => builder = calls[n].before

C23_Witness ==
    /\ opened = "map"
    /\ Len(calls) = 4
    /\ calls[3].call = "serialize_key" /\ calls[3].arg = TStr("b")
    /\ calls[4].call = "serialize_value" /\ calls[4].arg = TFailing("custom")
    /\ IsErr(calls[4].res)
    /\ calls[4].before.hash = HHash(<<HStr("a")>>, <<HInt(1)>>)
    /\ calls[4].before.current_key = <<HStr("b")>>
    /\ builder = calls[4].before

(***************************************************************************)
(* A call of a method defined through rutie_serde_methods!.                *)
(***************************************************************************)
\* DeserializeWrapper::deserialize of lib.rs, for a Deserialize type.
DeserializeWrapper_deserialize(data, ty) == from_object(data, ty)

\* IntoAnyObject::into_any_object of lib.rs, for a Serialize type.
into_any_object(v) == new_ruby_object(v)

\* The argument at index n, decoded whether or not it decodes.
Argument_unwrap_or_default(args, n) ==
    IF n + 1 \in DOMAIN args /\ IsOk(DeserializeWrapper_deserialize(args[n + 1], ArgTys[n + 1]))
    THEN DeserializeWrapper_deserialize(args[n + 1], ArgTys[n + 1])
    ELSE Ok(TUnit)

\* The declared argument at index n: _arguments.get(_i), deserialized.
Argument(args, n) ==
    chain_context(
        IF n + 1 \in DOMAIN args
        THEN DeserializeWrapper_deserialize(args[n + 1], ArgTys[n + 1])
        ELSE Err(ErrorFromStr("Argument '" \o ArgNames[n + 1] \o ": "
                                 \o ArgTypeNames[n + 1] \o "' not found for method '"
                                 \o MethodName \o "'")),
        "When deserializing arg: " \o ArgNames[n + 1])

\* VM::raise_ex(exception): the call ends.
RaiseEx(exception) ==
    /\ raised' = Append(raised, exception)
    /\ pc' = "raised"

\* The Err arm of catch_and_raise with the saved message left in its cell.
CatchAndRaise_keeping(saved) ==
    /\ RaiseEx(Exception(ExceptionClass, IF saved = None THEN "Unknown error" ELSE saved[1]))
    /\ UNCHANGED panic_message

\* catch_and_raise on a panic: the saved message is taken (Unknown error
\* if there is none) and raised as an exception of the given class.
CatchAndRaise(saved) ==
    /\ RaiseEx(Exception(ExceptionClass, IF saved = None THEN "Unknown error" ELSE saved[1]))
    /\ panic_message' = None

\* save_panic_message called while no method runs or from the body of one:
\* a message left behind by a panic that was caught elsewhere on the thread.
SavePanicMessage(message) ==
    /\ pc \in {"idle", "body"}
    /\ panic_message' = Some(message)
    /\ stashed' = IF pc = "idle" THEN stashed ELSE stashed \cup {message}
    /\ UNCHANGED <<pc, arguments, i, decoded, returned_value, trace, returned, raised>>
    /\ UNCHANGED <<convVars, cursorVars, builderVars, errorVars>>

\* The host calls the method: parse_arguments.
Call(args) ==
    /\ pc = "idle"
    /\ pc' = "args"
    /\ arguments' = args
    /\ i' = 0
    /\ decoded' = <<>>
    /\ returned_value' = NoResult
    /\ trace' = <<>>
    /\ returned' = None
    /\ raised' = <<>>
    /\ stashed' = {}
    /\ UNCHANGED <<panic_message, convVars, cursorVars, builderVars, errorVars>>

\* One declared argument: decoded and _i moved on, or the error raised.
DecodeArgument ==
    /\ pc = "args"
    /\ trace' = Append(trace, "arg " \o ToString(i))
    /\ IF IsOk(Argument(arguments, i))
       THEN /\ decoded' = Append(decoded, Argument(arguments, i).v)
            /\ i' = i + 1
            /\ pc' = IF i + 1 = Len(ArgTys) THEN "body" ELSE "args"
            /\ UNCHANGED raised
       ELSE /\ RaiseEx(into_exception(Argument(arguments, i).err, ExceptionClass))
            /\ UNCHANGED <<decoded, i>>
    /\ UNCHANGED <<arguments, returned_value, returned, panic_message, stashed>>
    /\ UNCHANGED <<convVars, cursorVars, builderVars, errorVars>>

\* The body: it returns Ok or Err, or panics and the closure unwinds.
Body(r) ==
    /\ pc = "body"
    /\ trace' = Append(trace, "body")
    /\ returned_value' = r
    /\ CASE IsOk(r) -> pc' = "result" /\ UNCHANGED raised
         [] IsErr(r) -> RaiseEx(r.err)
         [] IsPanic(r) -> pc' = "unwinding" /\ UNCHANGED raised
    /\ UNCHANGED <<arguments, i, decoded, returned, panic_message, stashed>>
    /\ UNCHANGED <<convVars, cursorVars, builderVars, errorVars>>

\* into_any_object on what the body returned; a panic of the serializer
\* unwinds the closure as one of the body does.
IntoAnyObject ==
    /\ pc = "result"
    /\ trace' = Append(trace, "serialize")
    /\ CASE IsOk(into_any_object(returned_value.v)) ->
              /\ returned' = Some(into_any_object(returned_value.v).v)
              /\ pc' = "returned"
              /\ UNCHANGED raised
         [] IsErr(into_any_object(returned_value.v)) ->
              /\ RaiseEx(into_exception(into_any_object(returned_value.v).err,
                                        ExceptionClass))
              /\ UNCHANGED returned
         [] IsPanic(into_any_object(returned_value.v)) ->
              /\ pc' = "unwinding"
              /\ UNCHANGED <<returned, raised>>
    /\ UNCHANGED <<arguments, i, decoded, returned_value, panic_message, stashed>>
    /\ UNCHANGED <<convVars, cursorVars, builderVars, errorVars>>

\* The message of the panic that unwinds the closure.
PanicInProgress ==
    IF IsPanic(returned_value) THEN returned_value.msg
    ELSE into_any_object(returned_value.v).msg

\* A panic hook of the application, if one is installed, hands the message
\* of the panic to save_panic_message before the closure unwinds.
PanicHook ==
    /\ pc = "unwinding"
    /\ panic_message' = Some(PanicInProgress)
    /\ stashed' = stashed \cup {PanicInProgress}
    /\ UNCHANGED <<pc, arguments, i, decoded, returned_value, trace, returned, raised>>
    /\ UNCHANGED <<convVars, cursorVars, builderVars, errorVars>>

\* catch_unwind returns Err: the Err arm of catch_and_raise.
Caught ==
    /\ pc = "unwinding"
    /\ CatchAndRaise(panic_message)
    /\ UNCHANGED <<arguments, i, decoded, returned_value, trace, returned, stashed>>
    /\ UNCHANGED <<convVars, cursorVars, builderVars, errorVars>>

\* The call is over; the thread's saved panic message stays as it is.
Finish ==
    /\ pc \in {"returned", "raised"}
    /\ pc' = "idle"
    /\ arguments' = <<>>
    /\ i' = 0
    /\ decoded' = <<>>
    /\ returned_value' = NoResult
    /\ trace' = <<>>
    /\ returned' = None
    /\ raised' = <<>>
    /\ stashed' = {}
    /\ UNCHANGED <<panic_message, convVars, cursorVars, builderVars, errorVars>>

HarnessNext ==
    \/ \E args \in ArgumentLists : Call(args)
    \/ DecodeArgument
    \/ \E r \in BodyResults : Body(r)
    \/ IntoAnyObject
    \/ PanicHook
    \/ Caught
    \/ Finish
    \/ SavePanicMessage("panicked elsewhere")

SpecHarness == Init /\ [][HarnessNext]_vars

\* The stages of a call, in the order the harness runs them.
Stages == [n \in DOMAIN ArgTys |-> "arg " \o ToString(n - 1)] \o <<"body", "serialize">>

\* The stage that ran last did not succeed.
LastStageFailed ==
    /\ trace # <<>>
    /\ CASE trace[Len(trace)] = "body" -> ~IsOk(returned_value)
         [] trace[Len(trace)] = "serialize" -> ~IsOk(into_any_object(returned_value.v))
         [] OTHER -> ~IsOk(Argument(arguments, Len(trace) - 1))

\* C10: the arguments are decoded in positional order; the body runs only
\* after every declared argument was present and decoded; the result is
\* serialized only if the body succeeded; a call ends with a host object
\* returned and nothing raised, or with exactly one exception raised, by
\* the stage that failed, after which no stage has run.
C10_HarnessStaging ==
    /\ IsPrefix(trace, Stages)
    /\ "body" \in Range(trace) =>
          /\ Len(arguments) >= Len(ArgTys)
          /\ Len(decoded) = Len(ArgTys)
          /\ \A n \in DOMAIN ArgTys :
                from_object(arguments[n], ArgTys[n]) = Ok(decoded[n])
    /\ "serialize" \in Range(trace) => IsOk(returned_value)
    /\ pc = "returned" =>
          /\ trace = Stages
          /\ returned = Some(into_any_object(returned_value.v).v)
          /\ raised = <<>>
    /\ pc = "raised" => (returned = None /\ Len(raised) = 1 /\ LastStageFailed)
    /\ pc \notin {"returned", "raised"} => (returned = None /\ raised = <<>>)

\* A call with its second argument missing has raised one exception, and
\* neither the body nor the serializer ran.
C10_Witness ==
    /\ pc = "raised"
    /\ arguments = <<HInt(1)>>
    /\ trace = <<"arg 0", "arg 1">>
    /\ Len(raised) = 1
    /\ raised[1].cls = ExceptionClass

(***************************************************************************)
(* An error on its way out: a fallible step returns, each caller on the    *)
(* way chains its context, and the outermost one renders the error as an   *)
(* exception.                                                              *)
(***************************************************************************)
MaxContext == 3
Contexts == {"When deserializing 'String' as Fixnum", "While deserializing x"}
StepResults ==
    {Ok(HInt(1)), Ok(HNil),
     Err(ErrorFromStr("not unit")),
     Err(ErrorFromException(Exception("KeyError", "key not found: :x"))),
     Err(NotImplemented("Deserializer::deserialize_tuple_struct"))}

\* The number of times ResultExt::chain_context calls its closure: the Ok
\* arm returns the value, the Err arm hands the closure to
\* Error::chain_context, which calls it once.
chain_context_evaluations(r) == IF IsErr(r) THEN 1 ELSE 0

\* A fallible step returns.
Returned(r) ==
    /\ outcome = NoResult
    /\ outcome' = r
    /\ UNCHANGED <<chained, closures, rendered>>
    /\ UNCHANGED <<convVars, cursorVars, builderVars, harnessVars>>

\* result.chain_context(|| str), by a caller of the step.
ChainContext(str) ==
    /\ outcome # NoResult
    /\ rendered = <<>>
    /\ Len(chained) < MaxContext
    /\ outcome' = chain_context(outcome, str)
    /\ closures' = closures + chain_context_evaluations(outcome)
    /\ chained' = Append(chained, [before |-> outcome, str |-> str,
                                   after |-> chain_context(outcome, str),
                                   evaluated |-> chain_context_evaluations(outcome)])
    /\ UNCHANGED rendered
    /\ UNCHANGED <<convVars, cursorVars, builderVars, harnessVars>>

\* error.into_exception(default_class), by the outermost caller.
IntoException ==
    /\ IsErr(outcome)
    /\ rendered = <<>>
    /\ rendered' = <<into_exception(outcome.err, ExceptionClass)>>
    /\ UNCHANGED <<outcome, chained, closures>>
    /\ UNCHANGED <<convVars, cursorVars, builderVars, harnessVars>>

\* The call is over.
Forget ==
    /\ outcome # NoResult
    /\ IsOk(outcome) \/ rendered # <<>>
    /\ outcome' = NoResult
    /\ chained' = <<>>
    /\ closures' = 0
    /\ rendered' = <<>>
    /\ UNCHANGED <<convVars, cursorVars, builderVars, harnessVars>>

ErrorNext ==
    \/ \E r \in StepResults : Returned(r)
    \/ \E str \in Contexts : ChainContext(str)
    \/ IntoException
    \/ Forget

SpecError == Init /\ [][ErrorNext]_vars

\* The context section of a message: nothing for no context, else the
\* heading and one line per context string, in the order of the list.
RECURSIVE ContextLines(_)
ContextLines(context) ==
    IF context = <<>> THEN ""
    ELSE ContextLines(SubSeq(context, 1, Len(context) - 1))
             \o "\n - " \o context[Len(context)]

ContextSection(context) ==
    IF context = <<>> THEN "" ELSE "\nContext from Rust:" \o ContextLines(context)

\* The strings the callers chained onto a failure, in the order of the calls.
Appended == [n \in DOMAIN chained |-> chained[n].str]

\* C11: an error that wraps a host exception is rendered as an exception
\* of that exception's class whose message is the original message followed
\* by the context section; any other error is rendered as an exception of
\* the default class whose message is the kind's text, a line break and
\* the context section.  The context section lists every context string in
\* the order it was appended, and is empty when none was appended.
C11_RenderedException ==
    rendered # <<>> =>
        /\ outcome.err.context = Appended
        /\ IF outcome.err.kind = "RutieException"
           THEN rendered[1] = [cls |-> outcome.err.cls,
                                msg |-> outcome.err.msg \o ContextSection(Appended)]
           ELSE rendered[1] = [cls |-> ExceptionClass,
                                msg |-> outcome.err.msg \o "\n"
                                            \o ContextSection(Appended)]

\* A wrapped KeyError was rendered after two different context strings were
\* chained onto it.
C11_Witness ==
    /\ rendered # <<>>
    /\ outcome.err.kind = "RutieException"
    /\ Len(chained) = 2
    /\ chained[1].str # chained[2].str
    /\ rendered[1].cls = "KeyError"

\* C19: chain_context on a success returns the success as it is and does
\* not call the context closure; on a failure it calls the closure once and
\* returns the failure with that one string appended at the end of the
\* context list, the kind and the earlier context strings being unchanged
\* and in the same order.
C19_ChainContextFrame ==
    /\ \A n \in DOMAIN chained :
          IF IsOk(chained[n].before)
          THEN /\ chained[n].after = chained[n].before
               /\ chained[n].evaluated = 0
          ELSE /\ IsErr(chained[n].after)
               /\ chained[n].after.err.kind = chained[n].before.err.kind
               /\ chained[n].after.err.cls = chained[n].before.err.cls
               /\ chained[n].after.err.msg = chained[n].before.err.msg
               /\ chained[n].after.err.context =
                      Append(chained[n].before.err.context, chained[n].str)
               /\ chained[n].evaluated = 1
    /\ chained # <<>> => outcome = chained[Len(chained)].after
    /\ closures = IF IsErr(outcome) THEN Len(chained) ELSE 0

\* A failure went through three chain_context calls.
C19_Witness ==
    /\ IsErr(outcome)
    /\ Len(chained) = 3
    /\ Len(outcome.err.context) = 3
    /\ closures = 3

\* C12: decoding a tuple-struct of arity n from a host array of n elements
\* succeeds and yields the elements, in their order, that decoding the array
\* as a sequence and as a tuple yields.
C12_TupleStructAsSequence ==
    (/\ stage = "decoded"
     /\ target.k = "tuple_struct"
     /\ object.cls = "Array"
     /\ Len(object.items) = Len(target.tys)
     /\ IsOk(from_object(object, SeqTy(I64)))) =>
        /\ IsOk(result)
        /\ result.v.items = from_object(object, SeqTy(I64)).v.items
        /\ result.v.items = from_object(object, TupleTy(target.tys)).v.items

\* The decode the dispatch table of deserialize_any names for an object.
AnyRule(o) ==
    CASE o = HNil -> Ok(TUnit)
      [] o.cls = "Array" -> from_object(o, SeqTy(AnyTy))
      [] o.cls = "Integer" -> Ok(TInt("i64", o.n))
      [] o.cls = "Float" -> Ok(TFloat(o.n))
      [] o.cls = "Hash" -> from_object(o, MapTy(AnyTy))
      [] o.cls = "String" -> Ok(TStr(o.s))
      [] o.cls \in {"TrueClass", "FalseClass"} -> Ok(TBool(o.cls = "TrueClass"))
      [] OTHER -> [st |-> "err",
                   err |-> [kind |-> "Message", cls |-> "",
                            msg |-> "No rules to deserialize " \o o.cls,
                            context |-> <<>>]]

\* C13: deserialize_any decodes nil as unit and otherwise goes by the name
\* of the object's class: an Array as a sequence, an Integer as a 64-bit
\* integer, a Float as a 64-bit float, a Hash as a map, a String as text,
\* true and false as a boolean; an object of any other class fails with a
\* message error that names the class, and no value is produced for it.
C13_AnyDispatch ==
    (stage = "decoded" /\ target = AnyTy) => result = AnyRule(object)

\* An instance of a subclass of Hash was given to deserialize_any, which
\* has no rule for the name of its class.
C13_Witness ==
    /\ stage = "decoded"
    /\ target = AnyTy
    /\ object.cls = "Params"
    /\ IsErr(result)
    /\ result.err.msg = "No rules to deserialize Params"

\* The selection of a variant from a tag and a payload.
SelectedBy(ty, tag, payload) ==
    Try(visit_str(VariantIdentifier(ty.names), tag),
        LAMBDA variant : Ok([variant |-> variant, access |-> VariantAccess_new(payload)]))

\* C14: in an enum decode only a Hash of exactly one entry is tagged content
\* (the tag its key as text, the payload its value); any other object, a
\* Hash of no entry or of several entries included, is taken as a unit
\* variant (the tag the object as text, the payload the object itself).
C14_OneEntryHashIsTagged ==
    (stage = "enum" /\ object.cls # "Params") =>
        result = EnumSelected(object, target,
                     IF object.cls = "Hash" /\ Len(object.keys) = 1
                     THEN SelectedBy(target, ToS(object.keys[1]), object.items[1])
                     ELSE SelectedBy(target, ToS(object), object))

\* The context strings that name the class of an object and a target type.
ClassNames == BuiltinClasses \cup {"Point", "Bag", "Registry"}
TargetNames == {"Fixnum", "Boolean", "RString", "Array", "Float"}
ConversionContexts ==
    {"When deserializing '" \o cls \o "' as " \o type :
        cls \in ClassNames, type \in TargetNames}

\* C15: a decode that fails because a host object is not of the host type
\* a conversion requires (the TypeError of try_convert_to) returns an error
\* whose context holds a string naming the object's class and the target.
C15_ConversionContext ==
    (/\ stage = "decoded"
     /\ IsErr(result)
     /\ result.err.kind = "RutieException"
     /\ result.err.cls = "TypeError") =>
        \E n \in DOMAIN result.err.context : result.err.context[n] \in ConversionContexts

\* The entries of hash h are the values of v serialized, in v's order, each
\* under the key Key makes of its name.
EntriesUnder(h, v, Key(_)) ==
    /\ h.cls = "Hash"
    /\ Len(h.keys) = Len(v.names)
    /\ Len(h.items) = Len(v.names)
    /\ \A n \in DOMAIN v.names :
          /\ h.keys[n] = Key(v.names[n])
          /\ Ok(h.items[n]) = new_ruby_object(v.items[n])

\* C16: a struct of n fields serializes to a Hash of exactly n entries whose
\* keys are the Symbols of the field names, each with its field's value
\* serialized; a map serializes to a Hash that stores each entry under the
\* serialized key, a text key being a String.
C16_StructKeysAreSymbols ==
    /\ (stage = "serialized" /\ value.t = "struct") =>
          /\ result = Ok(object)
          /\ EntriesUnder(object, value, HSym)
    /\ (stage = "serialized" /\ value.t = "map") =>
          /\ result = Ok(object)
          /\ EntriesUnder(object, value, HStr)

\* A struct of two fields was serialized to a Hash of two Symbol keys.
C16_Witness ==
    /\ stage = "serialized"
    /\ value.t = "struct"
    /\ Len(value.names) = 2
    /\ IsOk(result)
    /\ \A n \in DOMAIN object.keys : object.keys[n].cls = "Symbol"

\* C17: catch_and_raise hands on what the closure returned when it
\* completes, the saved message being left as it is; when the closure panics
\* it raises one exception of the given class, whose message is the saved
\* message if there is one and "Unknown error" if there is none, and leaves
\* the cell of the saved message empty.  A panic always ends in that raise.
C17_PanicBoundary ==
    [][/\ (pc = "unwinding" /\ pc' # "unwinding") =>
             /\ pc' = "raised"
             /\ raised' = <<Exception(ExceptionClass,
                                      IF panic_message = None THEN "Unknown error"
                                      ELSE panic_message[1])>>
             /\ returned' = None
             /\ panic_message' = None
       /\ (pc = "result" /\ pc' = "returned") =>
             /\ returned' = Some(into_any_object(returned_value.v).v)
             /\ raised' = <<>>
             /\ panic_message' = panic_message
       /\ (pc \in {"args", "body", "result"} /\ pc' = "raised") =>
             /\ Len(raised') = 1
             /\ panic_message' = panic_message]_vars

\* The body panicked with no message saved, and the exception raised says
\* Unknown error.
C17_Witness ==
    /\ pc = "raised"
    /\ IsPanic(returned_value)
    /\ raised = <<Exception(ExceptionClass, "Unknown error")>>
    /\ panic_message = None

\* C18: under any sequence of calls on a cursor its position stays between
\* 0 and its length and never decreases, and no call indexes the key list
\* or the field list at or past the length.
C18_CursorBounds ==
    /\ cursor.kind # "none" => cursor.pos \in 0..CursorLen(cursor)
    /\ \A n \in DOMAIN hist :
          /\ hist[n].advanced >= 0
          /\ ~IsPanic(hist[n].res)
          /\ (hist[n].call = "next_key" /\ hist[n].res # Ok(None)) =>
                hist[n].pos < hist[n].len

\* What the integer visitor of type k makes of the value v it is handed:
\* the value if it is one of k, else an error that names it.
Visited(k, v) ==
    IF MinOf(k) <= v /\ v <= MaxOf(k) THEN Ok(TInt(k, v))
    ELSE [st |-> "err",
          err |-> [kind |-> "Message", cls |-> "",
                   msg |-> "invalid value: integer '" \o ToString(v)
                               \o "', expected " \o k,
                   context |-> <<>>]]

\* C20 as stated: a host integer n decoded as an integer type of width W
\* reaches the visitor as n modulo 2^W, read as signed or unsigned as the
\* type is, so that every decode of a host integer succeeds with that value.
C20_TruncatedToWidth ==
    (stage = "decoded" /\ target.k \in IntKinds /\ object.cls = "Integer") =>
        result = Ok(TInt(target.k, WrapTo(target.k, object.n)))

\* C20: a host integer n decoded as a signed type of any width reaches the
\* visitor as n itself; decoded as u8, u16 or u32 it reaches the visitor as
\* n modulo 2^32; decoded as u64 as n modulo 2^64.  The deserializer checks
\* no range: a value that is out of the requested type's range is refused
\* by the visitor, with an error that names the value it was handed.
C20_HandedToVisitor ==
    (stage = "decoded" /\ target.k \in IntKinds /\ object.cls = "Integer") =>
        result = Visited(target.k,
                         CASE Signed(target.k) -> object.n
                           [] target.k = "u64" -> object.n % Pow2(Bits64)
                           [] OTHER -> object.n % Pow2(Bits32))

\* An integer above the range of i8 was decoded as an i8 and refused.
C20_Witness ==
    /\ stage = "decoded"
    /\ target.k = "i8"
    /\ object.cls = "Integer"
    /\ object.n > MaxOf("i8")
    /\ IsErr(result)
    /\ result.err.kind = "Message"

\* C21: an unsigned 64-bit value v always serializes: to the Integer v when
\* v is at most the greatest i64, and to the Integer v - 2^64 when it is
\* greater, which is then not v; a value of any narrower integer type
\* serializes to the Integer of the same value.
C21_U64Reinterpreted ==
    (stage = "serialized" /\ value.t \in IntKinds) =>
        /\ result = Ok(object)
        /\ object.cls = "Integer"
        /\ IF value.t = "u64" /\ value.n > MaxOf("i64")
           THEN object.n = value.n - Pow2(Bits64) /\ object.n # value.n
           ELSE object.n = value.n

\* The greatest u64 was serialized to the Integer -1.
C21_Witness ==
    /\ stage = "serialized"
    /\ value = TInt("u64", MaxOf("u64"))
    /\ result = Ok(HInt(0 - 1))

\* The call ended in the exception catch_and_raise raises for a panic: the
\* body panicked, or the serializer of what it returned did.
Aborted ==
    /\ pc = "raised"
    /\ \/ IsPanic(returned_value)
       \/ /\ IsOk(returned_value)
          /\ trace = Stages
          /\ IsPanic(into_any_object(returned_value.v))

\* C24: the message raised for a panic is one that was saved during the
\* call that panicked, or "Unknown error" when none was saved during it; a
\* message saved before the call began is not the one raised.
C24_AbortReportsOwnMessage ==
    Aborted =>
        \/ raised[1].msg \in stashed
        \/ stashed = {} /\ raised[1].msg = "Unknown error"

\* The calls on a hash cursor follow the protocol of a map visitor:
\* next_key_seed and next_value_seed alternate, a value is asked for only
\* after a key was returned, and no call follows a failure.
Alternating ==
    /\ cursor.kind = "hash"
    /\ \A n \in DOMAIN hist :
          /\ hist[n].call = (IF n % 2 = 1 THEN "next_key" ELSE "next_value")
          /\ n > 1 => IsOk(hist[n - 1].res)
          /\ n % 2 = 0 => hist[n - 1].res # Ok(None)

\* The entry the hash holds for the key.
EntryOf(h, k) == h.items[KeyIndex(h, k)]

\* Call n returned the entry of the hash for the key, decoded by the seed
\* it was given.
ReturnedEntry(n, k) ==
    /\ ~NoEntry(cursor.de, k)
    /\ \E seed \in ValueSeeds : hist[n].res = SeedDeserialize(seed, EntryOf(cursor.de, k))

\* C25: while next-key and next-value calls alternate on a hash cursor,
\* each next-value call looks up the key the preceding next-key call
\* read, which is the enumerated key at the position, and returns that
\* key's entry; the position moves on by one with each lookup that finds
\* an entry and with no other call; and a traversal that reaches the end
\* has read every enumerated key once, in the order of the enumeration,
\* each with its own entry.
C25_KeyThenItsValue ==
    Alternating =>
        /\ \A n \in DOMAIN hist :
              /\ hist[n].pos = (n - 1) \div 2
              /\ hist[n].call = "next_key" =>
                    /\ hist[n].advanced = 0
                    /\ hist[n].pos < hist[n].len =>
                          hist[n].res =
                              MapSome(SeedDeserialize(FieldIdentifier(PointTy.names),
                                                      Array_at(cursor.keys, hist[n].pos)))
              /\ hist[n].call = "next_value" =>
                    /\ hist[n].key = Array_at(cursor.keys, hist[n].pos)
                    /\ IF NoEntry(cursor.de, hist[n].key)
                       THEN IsErr(hist[n].res) /\ hist[n].advanced = 0
                       ELSE ReturnedEntry(n, hist[n].key) /\ hist[n].advanced = 1
        /\ (hist # <<>> /\ hist[Len(hist)].res = Ok(None)) =>
              /\ Len(hist) = 2 * cursor.len + 1
              /\ cursor.pos = cursor.len
              /\ \A j \in 1..cursor.len :
                    /\ hist[2 * j - 1].pos = j - 1
                    /\ hist[2 * j].key = cursor.de.keys[j]
                    /\ ReturnedEntry(2 * j, cursor.de.keys[j])

\* A hash of two entries was traversed to the end: a, its entry 1, b, its
\* entry x, and None.
C25_Witness ==
    /\ Alternating
    /\ cursor.de = HHash(<<HStr("a"), HSym("b")>>, <<HInt(1), HStr("x")>>)
    /\ Len(hist) = 5
    /\ hist[2].key = HStr("a") /\ hist[2].res = SeedDeserialize(I64, HInt(1))
    /\ hist[4].key = HSym("b") /\ hist[4].res = SeedDeserialize(IgnoredAny, HStr("x"))
    /\ hist[5].res = Ok(None)

=============================================================================
